---- MODULE Spec2Model ----
(***************************************************************************)
(* State-machine model of the twitter_sentiment ingestion / dedup /       *)
(* alerting pipeline: ScheduleManager._monitoring_job and its lock,        *)
(* TwitterMonitor.process_accounts, SentimentAnalyzer.analyze_batch,       *)
(* WeaviateStorage.store_tweet / store_tweets_batch,                       *)
(* NotificationService.send_notification / check_sentiment_threshold and   *)
(* ScheduleManager._notification_check_job.                                *)
(***************************************************************************)
EXTENDS Integers, Sequences, FiniteSets, TLC

(***************************************************************************)
(* Bounds of the model.                                                    *)
(***************************************************************************)
\* scheduler worker threads that may run _monitoring_job at the same time
NumThreads == 2
\* largest number of posts one upstream reply carries
MaxFetch == 1
\* largest number of posts one reply carries in the re-fetch model
MaxWindow == 2
\* process restarts that are explored
MaxRestarts == 1

Threads == 1..NumThreads

None == "<None>"

(***************************************************************************)
(* Text.  A Python str is a sequence of characters; lower() and the `in`   *)
(* substring test are computed on that sequence.                           *)
(***************************************************************************)
TxtBtcRally == <<"b", "t", "c", " ", "r", "a", "l", "l", "y">>
TxtEthDip == <<"E", "T", "H", " ", "d", "i", "p">>
TxtGm == <<"g", "m">>
KwBTC == <<"B", "T", "C">>
KwETH == <<"E", "T", "H">>
KwSOL == <<"S", "O", "L">>

lower_char(c) ==
    CASE c = "B" -> "b" [] c = "T" -> "t" [] c = "C" -> "c" [] c = "E" -> "e"
      [] c = "H" -> "h" [] c = "S" -> "s" [] c = "O" -> "o" [] c = "L" -> "l"
      [] c = "P" -> "p" [] c = "N" -> "n"
      [] OTHER -> c

lower(s) == [i \in 1..Len(s) |-> lower_char(s[i])]

\* Python's `sub in text` on strings
str_contains(text, sub) ==
    \E i \in 0..(Len(text) - Len(sub)) :
        \A j \in 1..Len(sub) : text[i + j] = sub[j]

Whitespace == {" ", "\n"}

RECURSIVE lstrip(_)
lstrip(s) ==
    IF s # <<>> /\ Head(s) \in Whitespace THEN lstrip(Tail(s)) ELSE s

RECURSIVE rstrip(_)
rstrip(s) ==
    IF s # <<>> /\ s[Len(s)] \in Whitespace THEN rstrip(SubSeq(s, 1, Len(s) - 1)) ELSE s

\* Python's str.strip()
strip(s) == rstrip(lstrip(s))

\* all sequences over S of length at most n
SeqUpTo(S, n) == UNION {[1..k -> S] : k \in 0..n}

(***************************************************************************)
(* Posts as the upstream API returns them (the fields the pipeline reads). *)
(* countsOk says whether int(retweetCount) and int(likeCount) succeed.     *)
(***************************************************************************)
PostIds == {"p1", "p2"}
Sentiments == {"positive", "neutral", "negative"}

\* the instants at which the clock of the store is read
Instants == {1, 2}

\* creation timestamps as the upstream sends them (Python strs)
TsCanonical == <<"2", "0", "2", "5", "-", "0", "5", "-", "1", "5", "T", "2", "2", ":", "0", "0", ":", "2", "2", "Z">>
TsLegacy == <<"T", "h", "u", " ", "M", "a", "y", " ", "1", "5", " ", "2", "2", ":", "0", "0", ":", "2", "2", " ", "+", "0", "0", "0", "0", " ", "2", "0", "2", "5">>
TsLegacyShortDay == <<"F", "r", "i", " ", "M", "a", "y", " ", "9", " ", "0", "7", ":", "0", "5", ":", "0", "9", " ", "+", "0", "0", "0", "0", " ", "2", "0", "2", "5">>
TsLegacyOffset == <<"T", "h", "u", " ", "M", "a", "y", " ", "1", "5", " ", "2", "2", ":", "0", "0", ":", "2", "2", " ", "+", "0", "1", "0", "0", " ", "2", "0", "2", "5">>
TsIsoOffset == <<"2", "0", "2", "5", "-", "0", "5", "-", "1", "5", "T", "2", "2", ":", "0", "0", ":", "2", "2", "+", "0", "0", ":", "0", "0">>
TsGarbage == <<"y", "e", "s", "t", "e", "r", "d", "a", "y">>
\* the post has no createdAt key
Absent == <<None>>

CreatedAts ==
    {TsCanonical, TsLegacy, TsLegacyShortDay, TsLegacyOffset, TsIsoOffset, TsGarbage}

Tweet(id, text, createdAt, countsOk) ==
    [id |-> id, text |-> text, createdAt |-> createdAt, countsOk |-> countsOk]

(***************************************************************************)
(* WeaviateStorage                                                         *)
(***************************************************************************)
DigitSeq == <<"0", "1", "2", "3", "4", "5", "6", "7", "8", "9">>
Digits == {DigitSeq[i] : i \in DOMAIN DigitSeq}

digit_val(c) == (CHOOSE i \in DOMAIN DigitSeq : DigitSeq[i] = c) - 1

all_digits(s) == \A i \in DOMAIN s : s[i] \in Digits

\* int() of a str of digits
RECURSIVE int_of(_)
int_of(s) ==
    IF s = <<>> THEN 0
    ELSE 10 * int_of(SubSeq(s, 1, Len(s) - 1)) + digit_val(s[Len(s)])

\* the characters of the model that the regex class \w does not match
NonWord == {" ", ":", "+", "-", ".", "\n", None}

all_word(s) == \A i \in DOMAIN s : s[i] \notin NonWord

\* s[from : from + n] of Python, <<>> past the end
Slice(s, from, n) ==
    IF from + n - 1 <= Len(s) THEN SubSeq(s, from, from + n - 1) ELSE <<>>

\* timestamp.replace('Z', '+00:00')
RECURSIVE replace_Z(_)
replace_Z(s) ==
    IF s = <<>> THEN <<>>
    ELSE IF Head(s) = "Z" THEN <<"+", "0", "0", ":", "0", "0">> \o replace_Z(Tail(s))
    ELSE <<Head(s)>> \o replace_Z(Tail(s))

days_in_month(y, m) ==
    IF m = 2 THEN (IF y % 4 = 0 /\ (y % 100 # 0 \/ y % 400 = 0) THEN 29 ELSE 28)
    ELSE IF m \in {4, 6, 9, 11} THEN 30 ELSE 31

valid_date(y, m, d) ==
    y >= 1 /\ m \in 1..12 /\ d >= 1 /\ d <= days_in_month(y, m)

\* HH:MM:SS with values in range
time_ok(t) ==
    /\ Len(t) = 8 /\ t[3] = ":" /\ t[6] = ":"
    /\ all_digits(SubSeq(t, 1, 2)) /\ all_digits(SubSeq(t, 4, 5)) /\ all_digits(SubSeq(t, 7, 8))
    /\ int_of(SubSeq(t, 1, 2)) < 24 /\ int_of(SubSeq(t, 4, 5)) < 60
    /\ int_of(SubSeq(t, 7, 8)) < 60

\* an ISO offset, +HH:MM or -HH:MM
offset_ok(z) ==
    /\ Len(z) = 6 /\ z[1] \in {"+", "-"} /\ z[4] = ":"
    /\ all_digits(SubSeq(z, 2, 3)) /\ all_digits(SubSeq(z, 5, 6))
    /\ int_of(SubSeq(z, 2, 3)) < 24 /\ int_of(SubSeq(z, 5, 6)) < 60

\* what may follow the seconds: a fraction of 3 or 6 digits, an offset, both
\* or nothing
iso_tail_ok(r) ==
    LET f == IF r # <<>> /\ r[1] = "."
             THEN IF Slice(r, 2, 6) # <<>> /\ all_digits(Slice(r, 2, 6)) THEN 7
                  ELSE IF Slice(r, 2, 3) # <<>> /\ all_digits(Slice(r, 2, 3)) THEN 4
                  ELSE Len(r) + 1
             ELSE 0
    IN  f <= Len(r) /\ LET z == SubSeq(r, f + 1, Len(r)) IN z = <<>> \/ offset_ok(z)

\* datetime.fromisoformat(s) does not raise: YYYY-MM-DD of a real date,
\* alone or followed by one separator character, HH:MM:SS and the tail
\* (the forms with a shortened time are not among the model's inputs)
fromisoformat_ok(s) ==
    /\ Len(s) >= 10 /\ s[5] = "-" /\ s[8] = "-"
    /\ all_digits(SubSeq(s, 1, 4)) /\ all_digits(SubSeq(s, 6, 7)) /\ all_digits(SubSeq(s, 9, 10))
    /\ valid_date(int_of(SubSeq(s, 1, 4)), int_of(SubSeq(s, 6, 7)), int_of(SubSeq(s, 9, 10)))
    /\ \/ Len(s) = 10
       \/ /\ Len(s) >= 19
          /\ time_ok(SubSeq(s, 12, 19))
          /\ iso_tail_ok(SubSeq(s, 20, Len(s)))

\* the shape "Www Mmm D[D] HH:MM:SS <zone> YYYY" with a day of d digits,
\* matched from the start of s as re.match does
legacy_shape(s, d) ==
    /\ Len(s) >= 28 + d
    /\ all_word(SubSeq(s, 1, 3)) /\ s[4] = " "
    /\ all_word(SubSeq(s, 5, 7)) /\ s[8] = " "
    /\ all_digits(SubSeq(s, 9, 8 + d)) /\ s[9 + d] = " "
    /\ all_digits(SubSeq(s, 10 + d, 11 + d)) /\ s[12 + d] = ":"
    /\ all_digits(SubSeq(s, 13 + d, 14 + d)) /\ s[15 + d] = ":"
    /\ all_digits(SubSeq(s, 16 + d, 17 + d)) /\ s[18 + d] = " "
    /\ s[24 + d] = " "
    /\ all_digits(SubSeq(s, 25 + d, 28 + d))

\* line 119-120: re.match of the pattern, whose zone is the literal +0000
pattern_match(s, d) ==
    legacy_shape(s, d) /\ SubSeq(s, 19 + d, 23 + d) = <<"+", "0", "0", "0", "0">>

\* line 129: match.groups()
groups(s, d) ==
    [month |-> SubSeq(s, 5, 7), day |-> SubSeq(s, 9, 8 + d),
     hour |-> SubSeq(s, 10 + d, 11 + d), minute |-> SubSeq(s, 13 + d, 14 + d),
     second |-> SubSeq(s, 16 + d, 17 + d), year |-> SubSeq(s, 25 + d, 28 + d)]

MonthNames ==
    {<<"J", "a", "n">>, <<"F", "e", "b">>, <<"M", "a", "r">>, <<"A", "p", "r">>, <<"M", "a", "y">>, <<"J", "u", "n">>,
     <<"J", "u", "l">>, <<"A", "u", "g">>, <<"S", "e", "p">>, <<"O", "c", "t">>, <<"N", "o", "v">>, <<"D", "e", "c">>}

\* lines 123-130: month_map.get(month, "01")
month_map_get(chars) ==
    CASE
         chars = <<"J", "a", "n">> -> <<"0", "1">>
      [] chars = <<"F", "e", "b">> -> <<"0", "2">>
      [] chars = <<"M", "a", "r">> -> <<"0", "3">>
      [] chars = <<"A", "p", "r">> -> <<"0", "4">>
      [] chars = <<"M", "a", "y">> -> <<"0", "5">>
      [] chars = <<"J", "u", "n">> -> <<"0", "6">>
      [] chars = <<"J", "u", "l">> -> <<"0", "7">>
      [] chars = <<"A", "u", "g">> -> <<"0", "8">>
      [] chars = <<"S", "e", "p">> -> <<"0", "9">>
      [] chars = <<"O", "c", "t">> -> <<"1", "0">>
      [] chars = <<"N", "o", "v">> -> <<"1", "1">>
      [] chars = <<"D", "e", "c">> -> <<"1", "2">>
      [] OTHER -> <<"0", "1">>

\* mutant: the day is written as it came
zfill_skipped(chars, width) ==
    chars

\* str.zfill(width)
zfill(chars, width) ==
    IF Len(chars) < width THEN [i \in 1..(width - Len(chars)) |-> "0"] \o chars ELSE chars

\* line 133 and the format of lines 137 and 142: YYYY-MM-DDTHH:MM:SSZ
format_rfc3339(year, month_num, day_padded, hour, minute, second) ==
    year \o <<"-">> \o month_num \o <<"-">> \o day_padded \o <<"T">>
      \o hour \o <<":">> \o minute \o <<":">> \o second \o <<"Z">>

WeekdayNames ==
    {<<"M", "o", "n">>, <<"T", "u", "e">>, <<"W", "e", "d">>, <<"T", "h", "u">>,
     <<"F", "r", "i">>, <<"S", "a", "t">>, <<"S", "u", "n">>}

\* line 136: datetime.strptime(timestamp, "%a %b %d %H:%M:%S %z %Y") does
\* not raise: the whole str has the shape, with known day and month names,
\* a real date and time and any numeric zone
strptime_ok(s, d) ==
    /\ legacy_shape(s, d) /\ Len(s) = 28 + d
    /\ SubSeq(s, 1, 3) \in WeekdayNames /\ SubSeq(s, 5, 7) \in MonthNames
    /\ s[19 + d] \in {"+", "-"} /\ all_digits(SubSeq(s, 20 + d, 23 + d))
    /\ int_of(SubSeq(s, 22 + d, 23 + d)) < 60
    /\ LET g == groups(s, d)
       IN  /\ valid_date(int_of(g.year), int_of(month_map_get(g.month)), int_of(g.day))
           /\ time_ok(g.hour \o <<":">> \o g.minute \o <<":">> \o g.second)

\* datetime.now(timezone.utc).strftime("%Y-%m-%dT%H:%M:%SZ") at an instant
strftime_now(now) ==
    format_rfc3339(<<"2", "0", "2", "5">>, <<"0", "5">>, <<"1", "6">>, <<"0", "8">>, <<"0", "0">>,
                   zfill(<<DigitSeq[now + 1]>>, 2))

\* datetime.now().isoformat() at an instant: local time, no zone, with the
\* microseconds
isoformat_now(now) ==
    <<"2", "0", "2", "5", "-", "0", "5", "-", "1", "6", "T", "1", "0", ":", "0", "0", ":">> \o zfill(<<DigitSeq[now + 1]>>, 2) \o <<".", "2", "5", "0", "0", "0", "0">>

\* _convert_timestamp_to_rfc3339, lines 108-142: a str that fromisoformat
\* accepts is returned as it is; a str that starts with the legacy pattern
\* is rewritten field by field; a str that strptime accepts is printed with
\* its own wall-clock fields; anything else becomes the current time
convert_timestamp_to_rfc3339(timestamp, now) ==
    IF fromisoformat_ok(replace_Z(timestamp)) THEN timestamp
    ELSE IF \E d \in {1, 2} : pattern_match(timestamp, d)
    THEN LET d == CHOOSE e \in {1, 2} : pattern_match(timestamp, e)
             g == groups(timestamp, d)
         IN  format_rfc3339(g.year, month_map_get(g.month), zfill(g.day, 2),
                            g.hour, g.minute, g.second)
    ELSE IF \E d \in {1, 2} : strptime_ok(timestamp, d)
    THEN LET d == CHOOSE e \in {1, 2} : strptime_ok(timestamp, e)
             g == groups(timestamp, d)
         IN  format_rfc3339(g.year, month_map_get(g.month), zfill(g.day, 2),
                            g.hour, g.minute, g.second)
    ELSE strftime_now(now)

\* line 172: tweet_data.get("createdAt", datetime.now().isoformat())
created_at(tweet_data, now) ==
    IF tweet_data.createdAt = Absent THEN isoformat_now(now) ELSE tweet_data.createdAt

\* str(x) as the f-string applies it
str_of(x) == IF x = None THEN "None" ELSE x

\* uuid.uuid5(namespace, name): a hash of namespace and name, taken to be
\* collision free
uuid5(namespace, name) == <<namespace, name>>

NAMESPACE_URL == "6ba7b811-9dad-11d1-80b4-00c04fd430c8"

\* mutant: the key also covers the text of the post
tweet_uuid_with_text(tweet_data) ==
    uuid5(NAMESPACE_URL, <<"twitter:", str_of(tweet_data.id), tweet_data.text>>)

\* the deterministic storage key of a post
tweet_uuid(tweet_data) ==
    uuid5(NAMESPACE_URL, <<"twitter:", str_of(tweet_data.id)>>)

\* a create that overwrites the object stored under the uuid
data_object_upsert(objs, properties, uuid, backend) ==
    IF backend = "down" THEN [exc |-> "Exception", objects |-> objs]
    ELSE IF \E i \in DOMAIN objs : objs[i].uuid = uuid
    THEN [exc |-> "ObjectAlreadyExistsException",
          objects |-> [i \in DOMAIN objs |->
                         IF objs[i].uuid = uuid
                         THEN [uuid |-> uuid, properties |-> properties]
                         ELSE objs[i]]]
    ELSE [exc |-> "none",
          objects |-> Append(objs, [uuid |-> uuid, properties |-> properties])]

\* client.data_object.create(class_name="TweetSentiment", data_object, uuid):
\* creates the object, or raises ObjectAlreadyExistsException when the uuid
\* is taken, or raises another exception when the store cannot be written
data_object_create(objs, properties, uuid, backend) ==
    IF backend = "down" THEN [exc |-> "Exception", objects |-> objs]
    ELSE IF \E i \in DOMAIN objs : objs[i].uuid = uuid
    THEN [exc |-> "ObjectAlreadyExistsException", objects |-> objs]
    ELSE [exc |-> "none",
          objects |-> Append(objs, [uuid |-> uuid, properties |-> properties])]

StoreProperties(tweet_data, sentiment, now) ==
    [tweet_text |-> tweet_data.text,
     sentiment |-> sentiment,
     timestamp |-> convert_timestamp_to_rfc3339(created_at(tweet_data, now), now),
     tweet_id |-> str_of(tweet_data.id)]

StoreResult(e) ==
    CASE e = "none" -> "new"
      [] e = "ObjectAlreadyExistsException" -> "existing"
      [] OTHER -> "error"

\* mutant: the object is created under a fresh uuid (uuid4) every time
store_tweet_fresh_uuid(objs, tweet_data, sentiment, backend, now) ==
    IF ~tweet_data.countsOk THEN [result |-> "error", objects |-> objs]
    ELSE LET r == data_object_create(objs, StoreProperties(tweet_data, sentiment, now),
                                     <<"uuid4", Len(objs)>>, backend)
         IN  [result |-> StoreResult(r.exc), objects |-> r.objects]

\* mutant: an existing object is overwritten with the new properties
store_tweet_replace_existing(objs, tweet_data, sentiment, backend, now) ==
    IF ~tweet_data.countsOk THEN [result |-> "error", objects |-> objs]
    ELSE LET r == data_object_upsert(objs, StoreProperties(tweet_data, sentiment, now),
                                     tweet_uuid(tweet_data), backend)
         IN  [result |-> StoreResult(r.exc), objects |-> r.objects]

\* store_tweet: the result string and the store after the call
store_tweet(objs, tweet_data, sentiment, backend, now) ==
    IF ~tweet_data.countsOk
    THEN \* int(...) raises while the properties are prepared
         [result |-> "error", objects |-> objs]
    ELSE LET properties == StoreProperties(tweet_data, sentiment, now)
             r == data_object_create(objs, properties, tweet_uuid(tweet_data), backend)
         IN  [result |-> StoreResult(r.exc), objects |-> r.objects]

EmptyStats(n) ==
    [new_tweets |-> 0, existing_tweets |-> 0, errors |-> 0, total_processed |-> n]

\* mutant: a failed write is dropped from the statistics
count_result_drop_errors(stats, result) ==
    IF result = "new" THEN [stats EXCEPT !.new_tweets = @ + 1]
    ELSE IF result = "existing" THEN [stats EXCEPT !.existing_tweets = @ + 1]
    ELSE stats

\* the body of the loop of store_tweets_batch: count one result
count_result(stats, result) ==
    IF result = "new" THEN [stats EXCEPT !.new_tweets = @ + 1]
    ELSE IF result = "existing" THEN [stats EXCEPT !.existing_tweets = @ + 1]
    ELSE [stats EXCEPT !.errors = @ + 1]

(***************************************************************************)
(* SentimentAnalyzer                                                       *)
(***************************************************************************)
ChPositive == <<"p", "o", "s", "i", "t", "i", "v", "e">>
ChNeutral == <<"n", "e", "u", "t", "r", "a", "l">>
ChNegative == <<"n", "e", "g", "a", "t", "i", "v", "e">>
\* completion texts as the service sends them: padded, capitalised, cut
\* short, empty, or a word outside the taxonomy
ChPositivePadded == <<" ", "P", "o", "s", "i", "t", "i", "v", "e">>
ChNegativeLine == <<"N", "e", "g", "a", "t", "i", "v", "e", "\n">>
ChPos == <<" ", "P", "o", "s">>
ChMixed == <<"m", "i", "x", "e", "d">>

\* the sentiment label a str stands for (the model keeps labels as strings)
label_of(chars) ==
    CASE chars = ChPositive -> "positive"
      [] chars = ChNeutral -> "neutral"
      [] chars = ChNegative -> "negative"
      [] OTHER -> "<other>"

Completion(text) == [raised |-> None, text |-> text]

\* openai.Completion.create raises, or response.choices is empty
FailedCompletions ==
    {[raised |-> "APIError", text |-> <<>>], [raised |-> "IndexError", text |-> <<>>]}

\* what the completion call gives: a raw completion text, or it raises
Completions ==
    {Completion(c) : c \in {ChPositive, ChNeutral, ChNegative, ChPositivePadded,
                            ChNegativeLine, ChPos, ChMixed, <<>>}}
      \cup FailedCompletions

\* the completions of the lock model
LockCompletions ==
    {Completion(ChPositivePadded), Completion(ChMixed), [raised |-> "APIError", text |-> <<>>]}

\* mutant: the completion is returned as it came
validate_sentiment_skipped(sentiment) ==
    sentiment

\* lines 69-71: a sentiment outside the taxonomy becomes neutral
validate_sentiment(sentiment) ==
    IF sentiment \notin {ChPositive, ChNeutral, ChNegative} THEN ChNeutral ELSE sentiment

\* line 74: `except Exception`
except_analysis(e) ==
    e \in {"APIError", "IndexError"}

\* analyze_tweet, lines 55-76: strip().lower() of the completion, validated;
\* neutral when the try block raised; the exception itself when the handler
\* does not take it
analyze_tweet(response) ==
    IF response.raised # None
    THEN IF except_analysis(response.raised)
         THEN [raised |-> None, sentiment |-> "neutral"]
         ELSE [raised |-> response.raised, sentiment |-> None]
    ELSE [raised |-> None,
          sentiment |-> label_of(validate_sentiment(lower(strip(response.text))))]

\* mutant: a post whose classification failed gets no pair
analyze_batch_drop_failed(tweets, responses) ==
    LET ok == SelectSeq([i \in DOMAIN tweets |-> i], LAMBDA i : responses[i].raised = None)
    IN  [j \in DOMAIN ok |-> <<tweets[ok[j]], analyze_tweet(responses[ok[j]]).sentiment>>]

\* analyze_batch, lines 87-95: one (tweet, sentiment) pair per tweet, in order
analyze_batch(tweets, responses) ==
    [i \in DOMAIN tweets |-> <<tweets[i], analyze_tweet(responses[i]).sentiment>>]

\* the exceptions that leave analyze_tweet during analyze_batch, in order
raised_in_batch(tweets, responses) ==
    SelectSeq([i \in DOMAIN tweets |-> analyze_tweet(responses[i]).raised],
              LAMBDA e : e # None)

(***************************************************************************)
(* TwitterMonitor                                                          *)
(***************************************************************************)
Accounts == <<"alice", "bob">>
crypto_keywords == <<KwBTC, KwETH, KwSOL>>

\* the keyword filter of fetch_tweets
matches_keywords(tweet, keywords) ==
    \E k \in DOMAIN keywords : str_contains(lower(tweet.text), lower(keywords[k]))

RECURSIVE filter_tweets(_, _)
filter_tweets(tweets, keywords) ==
    IF tweets = <<>> THEN <<>>
    ELSE LET rest == filter_tweets(Tail(tweets), keywords)
         IN  IF matches_keywords(Head(tweets), keywords)
             THEN <<Head(tweets)>> \o rest
             ELSE rest

\* what the upstream can answer: a 200 reply with posts, a transport failure
\* (requests.request raises RequestException), a status other than 200, a
\* payload without status "success" or without data.tweets, and a payload
\* that is not JSON or not of the expected shape (response.json() or a
\* field access raises inside the inner try block)
ReplyKinds == {"success", "request_exception", "http_error", "unsuccessful", "malformed"}

\* the exception a reply makes the body of fetch_tweets raise, and the try
\* block it is raised in: line 68 is in the outer block only, lines 73-96
\* are in the inner block too
raised_in_fetch(reply) ==
    CASE reply.kind = "request_exception" -> [e |-> "RequestException", inner |-> FALSE]
      [] reply.kind = "malformed" -> [e |-> "ValueError", inner |-> TRUE]
      [] OTHER -> [e |-> None, inner |-> FALSE]

\* line 104: `except Exception`
except_parsing(e) ==
    e \in {"RequestException", "ValueError"}

\* mutant: the outer handler is missing
except_request_missing(e) ==
    FALSE

\* line 113: `except requests.RequestException`
except_request(e) ==
    e = "RequestException"

\* mutant: the filter keeps the posts that match every keyword
filter_or_all_strict(tweets, keywords) ==
    IF keywords # <<>> /\ tweets # <<>>
    THEN SelectSeq(tweets, LAMBDA tw :
             \A k \in DOMAIN keywords : str_contains(lower(tw.text), lower(keywords[k])))
    ELSE tweets

\* lines 86-96: the posts filtered by keyword when keywords and posts are
\* given, all the posts otherwise
filter_or_all(tweets, keywords) ==
    IF keywords # <<>> /\ tweets # <<>>
    THEN filter_tweets(tweets, keywords)
    ELSE tweets

\* fetch_tweets on an upstream reply: the list it returns, or the exception
\* that leaves it when no handler of lines 104 and 113 takes it
fetch_tweets(reply, keywords) ==
    LET r == raised_in_fetch(reply)
    IN  IF r.e # None
        THEN IF (r.inner /\ except_parsing(r.e)) \/ except_request(r.e)
             THEN [raised |-> None, tweets |-> <<>>]
             ELSE [raised |-> r.e, tweets |-> <<>>]
        ELSE IF reply.kind = "success"
        THEN [raised |-> None, tweets |-> filter_or_all(reply.tweets, keywords)]
        ELSE [raised |-> None, tweets |-> <<>>]

\* the replies of an upstream that holds the posts `tweets`, each reply a
\* failure or a list of at most n of them, in any order and with repeats
UpstreamReplies(tweets, n) ==
    [kind : {"success"}, tweets : SeqUpTo(tweets, n)]
      \cup [kind : ReplyKinds \ {"success"}, tweets : {<<>>}]

\* the upstream of the lock model: one post id, with and without a keyword
LockTweets ==
    {Tweet("p1", text, TsLegacy, TRUE) : text \in {TxtBtcRally, TxtGm}}

\* the upstream of the re-fetch model: every post id, with and without a keyword
WindowTweets ==
    {Tweet(id, text, TsLegacy, TRUE) :
        id \in PostIds, text \in {TxtEthDip, TxtGm}}

(***************************************************************************)
(* State                                                                   *)
(***************************************************************************)
VARIABLES
    monitor_lock,       \* ScheduleManager.monitor_lock: TRUE when held
    pc,                 \* per thread: where it is in _monitoring_job
    acct,               \* per thread: index of the next account in process_accounts
    all_tweets,         \* per thread: all_tweets of process_accounts / tweets of the job
    analyzed_tweets,    \* per thread: the (tweet, sentiment) pairs of analyze_batch
    item,               \* per thread: index of the next pair in store_tweets_batch
    stats,              \* per thread: stats of store_tweets_batch
    attempts,           \* per thread: the store_tweet calls of store_tweets_batch so far
    exc,                \* per thread: the exception in flight, None when there is none
    steps,              \* per thread: the collaborator calls of its current or last run
    outcome,            \* per thread: how its last call of _monitoring_job went
    restarts,           \* number of process restarts so far
    last_tweet_ids,     \* TwitterMonitor.last_tweet_ids, None for an absent key
    last_fetch,         \* per thread: the last fetch_tweets call of the running
                        \* process_accounts: the upstream reply and what it returned
    objects             \* the TweetSentiment objects of the store, in creation order

\* direct calls of store_tweet
VARIABLES
    log,                \* per post id: the results of the store_tweet calls for it
    last_call           \* the arguments and the result of the last store_tweet call

\* a direct call of fetch_tweets
VARIABLES
    f_reply,            \* what the upstream answers
    f_keywords,         \* the keywords argument, <<>> for None and for []
    f_result            \* what the call returned, NotCalled before it

\* direct calls of analyze_tweet and of analyze_batch
VARIABLES
    z_response,         \* what the completion call gives to analyze_tweet
    z_sentiment,        \* what analyze_tweet returned, NotCalled before it
    z_tweets,           \* the argument of analyze_batch
    z_responses,        \* what the completion call gave for each post of the batch
    z_pairs             \* what analyze_batch returned, NotCalled before it

\* direct calls of get_latest_sentiments and of query_sentiment_trends
VARIABLES
    q_reply,            \* what the store answers to the query
    q_latest,           \* what get_latest_sentiments returned, NotCalled before it
    q_trends            \* what query_sentiment_trends returned, NotCalled before it

\* direct calls of _convert_timestamp_to_rfc3339
VARIABLES
    ts_src,             \* how the input was written: its form, month and day
    ts_in,              \* the timestamp argument
    ts_out,             \* what the call returned, NotCalled before it
    ts_again            \* what a second call on that result returned

\* ScheduleManager.start / stop and the schedulers they create
VARIABLES
    s_running,          \* ScheduleManager.running
    s_scheduler,        \* ScheduleManager.scheduler: index in s_scheds, 0 for None
    s_scheds,           \* the BackgroundScheduler objects created so far
    s_calls,            \* number of start and stop calls made
    s_last              \* the last call: its name and the value of running before it

\* main() and the runs the scheduler fires
VARIABLES
    m_pc,               \* where the process is
    m_env,              \* which credentials the environment provides
    m_accounts,         \* what load_twitter_accounts returns
    m_store,            \* whether WeaviateStorage() can be constructed
    m_exit,             \* how the process ended, NoExit while it runs
    m_fired             \* the job runs the scheduler has fired

\* a direct call of process_accounts
VARIABLES
    pa_accounts,        \* TwitterMonitor.accounts
    pa                  \* the last call: its argument, the calls it made, its result

\* NotificationService
VARIABLES
    clock,                  \* what time.time() returns
    clock_steps,            \* number of times the clock has advanced
    notification_method,    \* NotificationService.notification_method
    telegram_configured,    \* whether telegram_token and telegram_chat_id are both set
    last_notification_time, \* NotificationService.last_notification_time, a dict
    n_pc,                   \* per caller: where it is in send_notification
    n_call,                 \* per caller: keyword and channel of its call
    n_current_time,         \* per caller: current_time of _can_send_notification
    n_last_time,            \* per caller: last_time of _can_send_notification
    n_result,               \* per caller: what its last call returned, None before the first
    emitted,                \* per keyword: the times of the calls that passed the cooldown
    last_success,           \* per keyword: current_time of the last call that returned True
    delivered               \* per caller: what its last call attempted: "console" the
                            \* console line, "telegram" a _send_telegram call,
                            \* "telegram_post" the HTTP request, "telegram_ok" its success

\* direct calls of NotificationService.check_sentiment_threshold
VARIABLES
    t_sentiments,       \* the sentiments argument built so far
    t_threshold,        \* the threshold argument of the last call, 0 before it
    t_result            \* what the last call returned, NoResult before it

store_call_vars == <<log, last_call>>
fetch_call_vars == <<f_reply, f_keywords, f_result>>
analyze_call_vars == <<z_response, z_sentiment, z_tweets, z_responses, z_pairs>>
query_call_vars == <<q_reply, q_latest, q_trends>>
convert_call_vars == <<ts_src, ts_in, ts_out, ts_again>>
sched_vars == <<s_running, s_scheduler, s_scheds, s_calls, s_last>>
main_vars == <<m_pc, m_env, m_accounts, m_store, m_exit, m_fired>>
process_call_vars == <<pa_accounts, pa>>
extra_vars == <<sched_vars, main_vars, process_call_vars>>
pure_vars == <<fetch_call_vars, analyze_call_vars, query_call_vars, convert_call_vars,
               extra_vars>>
call_vars == <<store_call_vars, pure_vars>>

\* ScheduleManager._notification_check_job, which one scheduler thread runs
VARIABLES
    a_pc,               \* where the job is
    a_kw,               \* index of the keyword of the for loop, 0 outside the loop
    a_latest,           \* latest_sentiments of the current keyword
    a_result,           \* result of check_sentiment_threshold for the current keyword
    a_queried,          \* the get_latest_sentiments calls of the current or last run
    a_evaluated,        \* the keywords evaluated in the current or last run
    a_outcome,          \* how the last run went
    a_under_lock        \* whether monitor_lock was held at every step of that run

threshold_vars == <<t_sentiments, t_threshold, t_result>>

job_vars ==
    <<a_pc, a_kw, a_latest, a_result, a_queried, a_evaluated, a_outcome, a_under_lock>>

alert_vars == <<threshold_vars, job_vars>>

notify_vars ==
    <<clock, clock_steps, notification_method, telegram_configured,
      last_notification_time, n_pc, n_call, n_current_time, n_last_time, n_result,
      emitted, last_success, delivered>>

ingest_vars ==
    <<monitor_lock, pc, acct, all_tweets, analyzed_tweets, item, stats, attempts, exc,
      steps, outcome, restarts, last_tweet_ids, last_fetch, objects>>

\* the state of the ingestion side other than the lock
ingest_rest ==
    <<pc, acct, all_tweets, analyzed_tweets, item, stats, attempts, exc, steps,
      outcome, restarts, last_tweet_ids, last_fetch, objects>>


(***************************************************************************)
(* NotificationService                                                     *)
(***************************************************************************)
\* bounds of the notification model
EpochNow == 1700000000
MaxClockSteps == 3

\* self.min_interval
min_interval == 3600

Keywords == {"BTC", "ETH"}
Channels == {"all", "console", "telegram"}
Callers == 1..NumThreads

\* how far time.time() moves between two readings; it may step back
ClockDeltas == {-1, 3600}

\* a Python dict as a function on its keys
EmptyDict == [k \in {} |-> 0]
\* mutant: the newest value of any key
dict_get_newest(d, k, default) ==
    IF DOMAIN d = {} THEN default
    ELSE CHOOSE v \in {d[x] : x \in DOMAIN d} : \A x \in DOMAIN d : d[x] <= v

\* d.get(k, default)
dict_get(d, k, default) == IF k \in DOMAIN d THEN d[k] ELSE default
dict_set(d, k, v) == [x \in DOMAIN d \cup {k} |-> IF x = k THEN v ELSE d[x]]

\* NotificationService.__init__ with one of the given configurations
NotifyInit(methods, configured) ==
    /\ clock = EpochNow
    /\ clock_steps = 0
    /\ notification_method \in methods
    /\ telegram_configured \in configured
    /\ last_notification_time = EmptyDict
    /\ n_pc = [c \in Callers |-> "idle"]
    /\ n_call = [c \in Callers |-> [keyword |-> None, channel |-> None]]
    /\ n_current_time = [c \in Callers |-> 0]
    /\ n_last_time = [c \in Callers |-> 0]
    /\ n_result = [c \in Callers |-> None]
    /\ emitted = [k \in Keywords |-> <<>>]
    /\ last_success = EmptyDict
    /\ delivered = [c \in Callers |-> {}]

\* records the threshold is evaluated on
MaxSample == 11

\* line 48: the smallest sample that is evaluated
min_sample == 10

\* the records of a sample: labelled positive, labelled otherwise, or
\* without a "sentiment" key
SampleRecords ==
    {[sentiment |-> "positive"], [sentiment |-> "negative"], [tweet_text |-> "gm"]}

Thresholds == {0, 7, 8}

\* mutant: only the empty sample is too small
not_enough_data_empty(sentiments) == Len(sentiments) = 0

\* line 48: len(sentiments) < 10
not_enough_data(sentiments) == Len(sentiments) < min_sample

\* line 52: sum(1 for s in sentiments if s.get("sentiment") == "positive")
RECURSIVE count_positive(_)
count_positive(sentiments) ==
    IF sentiments = <<>> THEN 0
    ELSE (IF dict_get(Head(sentiments), "sentiment", None) = "positive" THEN 1 ELSE 0)
           + count_positive(Tail(sentiments))

\* mutant: the threshold has to be exceeded
threshold_exceeded(positive_count, threshold) == positive_count > threshold

\* line 55: positive_count >= threshold
threshold_met(positive_count, threshold) == positive_count >= threshold

\* line 61: round((num / den) * 100, 1), in tenths of a percent; Python
\* rounds to the nearest tenth, a tie to the even one
round_percentage(num, den) ==
    LET q == (1000 * num) \div den
        r == (1000 * num) % den
    IN  IF 2 * r < den THEN q
        ELSE IF 2 * r > den THEN q + 1
        ELSE IF q % 2 = 0 THEN q ELSE q + 1

\* NotificationService.check_sentiment_threshold; percentage is in tenths
check_sentiment_threshold(sentiments, threshold) ==
    IF not_enough_data(sentiments)
    THEN [triggered |-> FALSE, reason |-> "Not enough data"]
    ELSE LET positive_count == count_positive(sentiments)
         IN  [triggered |-> threshold_met(positive_count, threshold),
              positive_count |-> positive_count,
              total_count |-> Len(sentiments),
              percentage |-> round_percentage(positive_count, Len(sentiments))]

NoResult == [called |-> FALSE]

\* no call of check_sentiment_threshold yet
ThresholdInit ==
    /\ t_sentiments = <<>>
    /\ t_threshold = 0
    /\ t_result = NoResult

\* ScheduleManager.keywords
AlertKeywords == <<"BTC", "ETH">>

\* scheduler.py line 94: count=10
latest_count == 10

\* notifier.py line 38: the threshold the job leaves at its default
default_threshold == 7

\* n records of which the first p are labelled positive
Sample(p, n) ==
    [i \in 1..n |-> IF i <= p THEN [sentiment |-> "positive"]
                    ELSE [sentiment |-> "negative"]]

\* what the store answers to a query: an error, or its matches, newest first
QueryReplies ==
    {[kind |-> "raise", tweets |-> <<>>]}
      \cup {[kind |-> "ok", tweets |-> t] :
              t \in {Sample(0, 0), Sample(9, 9), Sample(6, 10), Sample(7, 10),
                     Sample(12, 12)}}

\* WeaviateStorage.get_latest_sentiments: the first count matches, [] when
\* the query raises (lines 344-346)
get_latest_sentiments(reply, count) ==
    IF reply.kind = "raise" THEN <<>>
    ELSE SubSeq(reply.tweets, 1, IF Len(reply.tweets) < count THEN Len(reply.tweets)
                                 ELSE count)

\* no run of _notification_check_job yet
JobInit ==
    /\ a_pc = "idle"
    /\ a_kw = 0
    /\ a_latest = <<>>
    /\ a_result = NoResult
    /\ a_queried = <<>>
    /\ a_evaluated = <<>>
    /\ a_outcome = "none"
    /\ a_under_lock = FALSE

AlertInit == ThresholdInit /\ JobInit

(***************************************************************************)
(* Direct calls of WeaviateStorage.store_tweet                             *)
(***************************************************************************)
\* store_tweet calls that are explored
MaxCalls == 2

NoCall == [id |-> None]

\* no fetch_tweets call made yet by the running process_accounts
NoFetch == [kind |-> None, since_id |-> None, tweets |-> <<>>]

\* what tweet_data.get("id") can be: a post id, or None for a post without one
StoreKeys == PostIds \cup {None}

StoreCallInit ==
    /\ log = [id \in StoreKeys |-> <<>>]
    /\ last_call = NoCall

NotCalled == [called |-> FALSE]

FetchCallInit ==
    /\ f_reply = [kind |-> None, tweets |-> <<>>]
    /\ f_keywords = <<>>
    /\ f_result = NotCalled

\* no direct call of a pure function is under way
AnalyzeCallInit ==
    /\ z_response = Completion(<<>>)
    /\ z_sentiment = NotCalled
    /\ z_tweets = <<>>
    /\ z_responses = <<>>
    /\ z_pairs = NotCalled

QueryCallInit ==
    /\ q_reply = [kind |-> "ok", tweets |-> <<>>]
    /\ q_latest = NotCalled
    /\ q_trends = NotCalled

ConvertCallInit ==
    /\ ts_src = [form |-> "other", month |-> 0, day |-> <<>>]
    /\ ts_in = TsGarbage
    /\ ts_out = NotCalled
    /\ ts_again = NotCalled

NoExit == [code |-> -1, raised |-> None]

\* ScheduleManager.__init__, lines 32-33
SchedInit ==
    /\ s_running = FALSE
    /\ s_scheduler = 0
    /\ s_scheds = <<>>
    /\ s_calls = 0
    /\ s_last = [op |-> None, was_running |-> FALSE]

\* no process is being started
MainInit ==
    /\ m_pc = "none"
    /\ m_env = [twitterapi_key |-> TRUE, openai_api_key |-> TRUE]
    /\ m_accounts = <<>>
    /\ m_store = "ok"
    /\ m_exit = NoExit
    /\ m_fired = <<>>

\* no direct call of process_accounts was made
ProcessCallInit ==
    pa_accounts = Accounts /\ pa = NotCalled

ExtraInit ==
    SchedInit /\ MainInit /\ ProcessCallInit

\* no direct call is under way
CallsIdle ==
    FetchCallInit /\ AnalyzeCallInit /\ QueryCallInit /\ ConvertCallInit

PureInit ==
    CallsIdle /\ ExtraInit

AccountNames == {Accounts[i] : i \in DOMAIN Accounts}

IngestInit ==
    /\ monitor_lock = FALSE
    /\ pc = [t \in Threads |-> "idle"]
    /\ acct = [t \in Threads |-> 1]
    /\ all_tweets = [t \in Threads |-> <<>>]
    /\ analyzed_tweets = [t \in Threads |-> <<>>]
    /\ item = [t \in Threads |-> 1]
    /\ stats = [t \in Threads |-> EmptyStats(0)]
    /\ attempts = [t \in Threads |-> <<>>]
    /\ exc = [t \in Threads |-> None]
    /\ steps = [t \in Threads |-> <<>>]
    /\ outcome = [t \in Threads |-> "none"]
    /\ restarts = 0
    /\ last_tweet_ids = [a \in AccountNames |-> None]
    /\ last_fetch = [t \in Threads |-> NoFetch]
    /\ objects = <<>>

(***************************************************************************)
(* ScheduleManager._monitoring_job, one action per step of a thread        *)
(***************************************************************************)
\* mutant: the lock is taken whether or not it is held
acquire_ignoring_holder(lock) == [ok |-> TRUE, lock |-> TRUE]

\* Lock.acquire(blocking=False): succeeds exactly when the lock is free
acquire_nonblocking(lock) == [ok |-> ~lock, lock |-> TRUE]

\* mutant: the early return of the skip path is missing
job_after_acquire_no_return(ok) ==
    IF ok THEN [pc |-> "fetching", outcome |-> "running"]
    ELSE [pc |-> "fetching", outcome |-> "skipped"]

\* lines 43-47: enter the try block, or log and return
job_after_acquire(ok) ==
    IF ok THEN [pc |-> "fetching", outcome |-> "running"]
    ELSE [pc |-> "idle", outcome |-> "skipped"]

\* a scheduler tick calls _monitoring_job on thread t
MonitoringJob_Tick(t) ==
    /\ pc[t] = "idle"
    /\ LET a == acquire_nonblocking(monitor_lock)
           n == job_after_acquire(a.ok)
       IN  /\ monitor_lock' = a.lock
           /\ pc' = [pc EXCEPT ![t] = n.pc]
           /\ outcome' = [outcome EXCEPT ![t] = n.outcome]
    /\ steps' = [steps EXCEPT ![t] = <<>>]
    /\ acct' = [acct EXCEPT ![t] = 1]
    /\ all_tweets' = [all_tweets EXCEPT ![t] = <<>>]
    /\ analyzed_tweets' = [analyzed_tweets EXCEPT ![t] = <<>>]
    /\ item' = [item EXCEPT ![t] = 1]
    /\ stats' = [stats EXCEPT ![t] = EmptyStats(0)]
    /\ attempts' = [attempts EXCEPT ![t] = <<>>]
    /\ exc' = [exc EXCEPT ![t] = None]
    /\ UNCHANGED <<restarts, last_tweet_ids, last_fetch, objects>>
    /\ UNCHANGED <<call_vars, notify_vars, alert_vars>>

\* mutant: a fetch that returns nothing forgets the cursor
update_cursor_or_reset(ids, account, tweets) ==
    IF tweets # <<>> THEN [ids EXCEPT ![account] = tweets[1].id]
    ELSE [ids EXCEPT ![account] = None]

\* lines 143-146: the cursor of the account becomes the id of the first
\* post returned; nothing is written when no post is returned
update_cursor(ids, account, tweets) ==
    IF tweets # <<>> THEN [ids EXCEPT ![account] = tweets[1].id]
    ELSE ids

\* process_accounts, lines 132-149: fetch one account and move its cursor
ProcessAccounts_Fetch(t, accounts, replies) ==
    /\ pc[t] = "fetching"
    /\ acct[t] <= Len(accounts)
    /\ \E reply \in replies :
         LET account == accounts[acct[t]]
             r == fetch_tweets(reply, crypto_keywords)
         IN  IF r.raised = None
             THEN /\ last_tweet_ids' = update_cursor(last_tweet_ids, account, r.tweets)
                  /\ all_tweets' = [all_tweets EXCEPT ![t] = @ \o r.tweets]
                  /\ acct' = [acct EXCEPT ![t] = @ + 1]
                  /\ last_fetch' = [last_fetch EXCEPT ![t] =
                         [kind |-> reply.kind, since_id |-> last_tweet_ids[account],
                          tweets |-> r.tweets]]
                  /\ UNCHANGED <<pc, exc>>
             ELSE \* the exception leaves process_accounts for the handler
                  \* of _monitoring_job
                  /\ pc' = [pc EXCEPT ![t] = "except"]
                  /\ exc' = [exc EXCEPT ![t] = r.raised]
                  /\ last_fetch' = [last_fetch EXCEPT ![t] =
                         [kind |-> reply.kind, since_id |-> last_tweet_ids[account],
                          tweets |-> <<>>]]
                  /\ UNCHANGED <<last_tweet_ids, all_tweets, acct>>
    /\ steps' = [steps EXCEPT ![t] = IF @ = <<>> THEN <<"fetch">> ELSE @]
    /\ UNCHANGED <<monitor_lock, analyzed_tweets, item, stats, attempts, outcome,
                   restarts, objects>>
    /\ UNCHANGED <<call_vars, notify_vars, alert_vars>>

\* mutant: the run goes on to analyze_batch with no tweets
job_after_fetch_no_return(tweets) ==
    IF tweets = <<>> THEN [pc |-> "classifying", outcome |-> "no_tweets"]
    ELSE [pc |-> "classifying", outcome |-> "running"]

\* lines 53-57: `if not tweets: return`, which leaves through the finally block
job_after_fetch(tweets) ==
    IF tweets = <<>> THEN [pc |-> "finally", outcome |-> "no_tweets"]
    ELSE [pc |-> "classifying", outcome |-> "running"]

\* lines 51-57: process_accounts returned; no tweets ends the run
MonitoringJob_Fetched(t, accounts) ==
    /\ pc[t] = "fetching"
    /\ acct[t] > Len(accounts)
    /\ LET n == job_after_fetch(all_tweets[t])
       IN  /\ pc' = [pc EXCEPT ![t] = n.pc]
           /\ outcome' = [outcome EXCEPT ![t] = n.outcome]
    /\ last_fetch' = [last_fetch EXCEPT ![t] = NoFetch]
    /\ UNCHANGED <<monitor_lock, acct, all_tweets, analyzed_tweets, item, stats, attempts, exc,
                   steps, restarts, last_tweet_ids, objects>>
    /\ UNCHANGED <<call_vars, notify_vars, alert_vars>>

\* line 60: analyze_batch pairs every tweet with the sentiment of its text
MonitoringJob_Analyze(t, Raw) ==
    /\ pc[t] = "classifying"
    /\ \E completions \in [DOMAIN all_tweets[t] -> Raw] :
         LET raised == raised_in_batch(all_tweets[t], completions)
         IN  IF raised = <<>>
             THEN /\ analyzed_tweets' = [analyzed_tweets EXCEPT ![t] =
                          analyze_batch(all_tweets[t], completions)]
                  /\ pc' = [pc EXCEPT ![t] = "storing"]
                  /\ item' = [item EXCEPT ![t] = 1]
                  /\ stats' = [stats EXCEPT ![t] = EmptyStats(Len(all_tweets[t]))]
                  /\ attempts' = [attempts EXCEPT ![t] = <<>>]
                  /\ UNCHANGED exc
             ELSE \* the exception leaves analyze_batch for the handler of
                  \* _monitoring_job
                  /\ pc' = [pc EXCEPT ![t] = "except"]
                  /\ exc' = [exc EXCEPT ![t] = raised[1]]
                  /\ UNCHANGED <<analyzed_tweets, item, stats, attempts>>
    /\ steps' = [steps EXCEPT ![t] = Append(@, "classify")]
    /\ UNCHANGED <<monitor_lock, acct, all_tweets, outcome, restarts,
                   last_tweet_ids, last_fetch, objects>>
    /\ UNCHANGED <<call_vars, notify_vars, alert_vars>>

\* mutant: the loop stops at the first failed write
next_item_stop_on_error(i, n, result) == IF result = "error" THEN n + 1 ELSE i + 1

\* the for loop of store_tweets_batch moves to the next pair whatever the result
next_item(i, n, result) == i + 1

\* store_tweets_batch, lines 236-244: one pass of the loop
StoreBatch_Item(t) ==
    /\ pc[t] = "storing"
    /\ item[t] <= Len(analyzed_tweets[t])
    /\ \E backend \in {"up", "down"}, now \in Instants :
         LET pair == analyzed_tweets[t][item[t]]
             r == store_tweet(objects, pair[1], pair[2], backend, now)
         IN  /\ objects' = r.objects
             /\ stats' = [stats EXCEPT ![t] = count_result(@, r.result)]
             /\ attempts' = [attempts EXCEPT ![t] =
                    Append(@, [index |-> item[t], result |-> r.result])]
             /\ item' = [item EXCEPT ![t] =
                    next_item(@, Len(analyzed_tweets[t]), r.result)]
    /\ steps' = [steps EXCEPT ![t] = IF item[t] = 1 THEN Append(@, "store") ELSE @]
    /\ UNCHANGED <<monitor_lock, pc, acct, all_tweets, analyzed_tweets, exc, outcome,
                   restarts, last_tweet_ids, last_fetch>>
    /\ UNCHANGED <<call_vars, notify_vars, alert_vars>>

\* lines 63-80: store_tweets_batch returned, the statistics are logged
MonitoringJob_Stored(t) ==
    /\ pc[t] = "storing"
    /\ item[t] > Len(analyzed_tweets[t])
    /\ pc' = [pc EXCEPT ![t] = "finally"]
    /\ outcome' = [outcome EXCEPT ![t] = "completed"]
    /\ UNCHANGED <<monitor_lock, acct, all_tweets, analyzed_tweets, item, stats, attempts, exc,
                   steps, restarts, last_tweet_ids, last_fetch, objects>>
    /\ UNCHANGED <<call_vars, notify_vars, alert_vars>>

\* exceptions a collaborator call can raise inside the try block
Raisable == {"RuntimeError", "AttributeError"}

\* a step of the try block raises
MonitoringJob_Raise(t) ==
    /\ pc[t] \in {"fetching", "classifying", "storing"}
    /\ \E e \in Raisable : exc' = [exc EXCEPT ![t] = e]
    /\ pc' = [pc EXCEPT ![t] = "except"]
    /\ steps' = [steps EXCEPT ![t] =
           CASE pc[t] = "fetching" /\ @ = <<>> -> <<"fetch">>
             [] pc[t] = "classifying" -> Append(@, "classify")
             [] pc[t] = "storing" /\ item[t] = 1 -> Append(@, "store")
             [] OTHER -> @]
    /\ last_fetch' = [last_fetch EXCEPT ![t] = NoFetch]
    /\ UNCHANGED <<monitor_lock, acct, all_tweets, analyzed_tweets, item, stats, attempts,
                   outcome, restarts, last_tweet_ids, objects>>
    /\ UNCHANGED <<call_vars, notify_vars, alert_vars>>

\* mutant: the handler catches ValueError only
except_clause_value_error(e) == e = "ValueError"

\* line 82, `except Exception`: every exception the steps raise is one
except_clause(e) == e \in {"RuntimeError", "AttributeError", "ValueError", "Exception"}

\* mutant: the handler forgets the cursors the failed cycle moved
cursors_after_failure_reset(ids) ==
    [a \in DOMAIN ids |-> None]

\* lines 82-83: the handler logs the exception and nothing else; the
\* cursors of the monitor stay as process_accounts left them
cursors_after_failure(ids) ==
    ids

\* lines 82-83: the handler logs a caught exception
MonitoringJob_Except(t) ==
    /\ pc[t] = "except"
    /\ pc' = [pc EXCEPT ![t] = "finally"]
    /\ IF except_clause(exc[t])
       THEN /\ exc' = [exc EXCEPT ![t] = None]
            /\ outcome' = [outcome EXCEPT ![t] = "failed"]
       ELSE /\ outcome' = [outcome EXCEPT ![t] = "propagated"]
            /\ UNCHANGED exc
    /\ last_tweet_ids' = cursors_after_failure(last_tweet_ids)
    /\ UNCHANGED <<monitor_lock, acct, all_tweets, analyzed_tweets, item, stats, attempts,
                   steps, restarts, last_fetch, objects>>
    /\ UNCHANGED <<call_vars, notify_vars, alert_vars>>

\* mutant: the release is the last statement of the try block
release_unless_failed(lock, how) == IF how \in {"failed", "propagated"} THEN lock ELSE FALSE

\* lines 84-85: the finally block releases the lock however the run ended
release_in_finally(lock, how) == FALSE

\* the finally block runs and _monitoring_job returns
MonitoringJob_Finally(t) ==
    /\ pc[t] = "finally"
    /\ monitor_lock' = release_in_finally(monitor_lock, outcome[t])
    /\ pc' = [pc EXCEPT ![t] = "idle"]
    /\ acct' = [acct EXCEPT ![t] = 1]
    /\ all_tweets' = [all_tweets EXCEPT ![t] = <<>>]
    /\ analyzed_tweets' = [analyzed_tweets EXCEPT ![t] = <<>>]
    /\ item' = [item EXCEPT ![t] = 1]
    /\ stats' = [stats EXCEPT ![t] = EmptyStats(0)]
    /\ attempts' = [attempts EXCEPT ![t] = <<>>]
    /\ exc' = [exc EXCEPT ![t] = None]
    /\ UNCHANGED <<steps, outcome, restarts, last_tweet_ids, last_fetch, objects>>
    /\ UNCHANGED <<call_vars, notify_vars, alert_vars>>

\* the process is restarted: the in-memory state is lost, the store is kept
ProcessRestart ==
    /\ restarts < MaxRestarts
    /\ restarts' = restarts + 1
    /\ monitor_lock' = FALSE
    /\ pc' = [t \in Threads |-> "idle"]
    /\ acct' = [t \in Threads |-> 1]
    /\ all_tweets' = [t \in Threads |-> <<>>]
    /\ analyzed_tweets' = [t \in Threads |-> <<>>]
    /\ item' = [t \in Threads |-> 1]
    /\ stats' = [t \in Threads |-> EmptyStats(0)]
    /\ attempts' = [t \in Threads |-> <<>>]
    /\ exc' = [t \in Threads |-> None]
    /\ steps' = [t \in Threads |-> <<>>]
    /\ outcome' = [t \in Threads |-> "none"]
    /\ last_tweet_ids' = [a \in AccountNames |-> None]
    /\ last_fetch' = [t \in Threads |-> NoFetch]
    /\ UNCHANGED objects
    /\ UNCHANGED <<call_vars, notify_vars, alert_vars>>

Next ==
    \/ \E t \in Threads : MonitoringJob_Tick(t)
    \/ \E t \in Threads : ProcessAccounts_Fetch(t, Accounts, UpstreamReplies(LockTweets, MaxFetch))
    \/ \E t \in Threads : MonitoringJob_Fetched(t, Accounts)
    \/ \E t \in Threads : MonitoringJob_Analyze(t, LockCompletions)
    \/ \E t \in Threads : StoreBatch_Item(t)
    \/ \E t \in Threads : MonitoringJob_Stored(t)
    \/ \E t \in Threads : MonitoringJob_Raise(t)
    \/ \E t \in Threads : MonitoringJob_Except(t)
    \/ \E t \in Threads : MonitoringJob_Finally(t)

vars == <<ingest_vars, call_vars, notify_vars, alert_vars>>
\* the configuration of config.py: console notifications, no telegram credentials
BaseInit == IngestInit /\ StoreCallInit /\ NotifyInit({"console"}, {FALSE}) /\ AlertInit

Init == BaseInit /\ PureInit
Spec == Init /\ [][Next]_vars


(***************************************************************************)
(* Properties of the ingestion lock (specification Spec)                   *)
(***************************************************************************)
InCycle(t) == pc[t] # "idle"

\* C1: under any interleaving of ticks at most one thread is between the
\* acquisition and the release of monitor_lock (fetching, classifying,
\* storing, or on its way out through the handler and the finally block)
C1_AtMostOneCycle == Cardinality({t \in Threads : InCycle(t)}) <= 1

\* a thread is storing while the tick of another one was skipped
C1_Witness ==
    \E t, u \in Threads :
        t # u /\ pc[t] = "storing" /\ item[t] > 1 /\ outcome[u] = "skipped"

\* C2: a tick that found the lock held has returned at once: it made no
\* fetch, classify or store call and holds no work, and it stays so when the
\* lock becomes free (nothing runs for it until the next tick)
C2_SkippedTickDoesNothing ==
    \A t \in Threads :
        outcome[t] = "skipped" =>
            /\ pc[t] = "idle"
            /\ steps[t] = <<>>
            /\ all_tweets[t] = <<>> /\ analyzed_tweets[t] = <<>> /\ attempts[t] = <<>>

\* a tick was skipped, the cycle that held the lock has completed and the
\* lock is free again, and the skipped tick still has not run
C2_Witness ==
    \E t, u \in Threads :
        /\ outcome[t] = "skipped" /\ outcome[u] = "completed"
        /\ pc[u] = "idle" /\ ~monitor_lock

\* C3: the lock is held exactly while a cycle that acquired it is executing,
\* so when no cycle is executing the lock is free and the next tick acquires it
C3_LockFreeWhenIdle ==
    /\ monitor_lock <=> (\E t \in Threads : InCycle(t))
    /\ (\A t \in Threads : ~InCycle(t)) => acquire_nonblocking(monitor_lock).ok

\* after a cycle that ended in an exception another tick runs a full cycle
C3_Witness ==
    \E t, u \in Threads :
        t # u /\ outcome[t] = "failed" /\ pc[t] = "idle" /\ pc[u] = "finally"
            /\ outcome[u] = "completed"

\* C4: an exception raised by the fetch, classify or store step never leaves
\* _monitoring_job: the handler has cleared it before the job returns
C4_ExceptionCaught ==
    \A t \in Threads :
        /\ outcome[t] # "propagated"
        /\ pc[t] \in {"finally", "idle"} => exc[t] = None

\* the classify step of one cycle raised, and a later tick is classifying
C4_Witness ==
    \E t, u \in Threads :
        /\ t # u /\ outcome[t] = "failed" /\ steps[t] = <<"fetch", "classify">>
        /\ pc[u] = "classifying"

\* the calls a thread's current or last run made
StepsOf(t) == {steps[t][i] : i \in DOMAIN steps[t]}

\* C20: an ingestion cycle whose fetch step returned zero posts ends without
\* a classify call and without a store call, and releases the lock: once its
\* thread is idle the lock is held only if another thread's cycle holds it
C20_NoTweetsEndsCycle ==
    \A t \in Threads :
        outcome[t] = "no_tweets" =>
            /\ StepsOf(t) \subseteq {"fetch"}
            /\ analyzed_tweets[t] = <<>> /\ attempts[t] = <<>>
            /\ pc[t] \in {"finally", "idle"}
            /\ (pc[t] = "idle" /\ monitor_lock) => \E u \in Threads : u # t /\ InCycle(u)

\* a cycle fetched every account, found no tweet and returned; the lock is free
C20_Witness ==
    \E t \in Threads :
        /\ outcome[t] = "no_tweets" /\ pc[t] = "idle"
        /\ steps[t] = <<"fetch">>
        /\ ~monitor_lock

\* thread t fetches one account in this step
FetchStep(t) == pc[t] = "fetching" /\ acct'[t] = acct[t] + 1

\* C23: a fetch that returns no posts (none upstream, none matching a
\* keyword, or a failed request) leaves the account's cursor as it was, and
\* no fetch changes the cursor of another account
C23_CursorKeptOnEmptyFetch ==
    [][\A t \in Threads :
         FetchStep(t) =>
            /\ all_tweets'[t] = all_tweets[t] => last_tweet_ids' = last_tweet_ids
            /\ \A b \in AccountNames :
                 b # Accounts[acct[t]] => last_tweet_ids'[b] = last_tweet_ids[b]]_vars

\* the first account has a cursor from an earlier cycle, and its fetch in
\* this cycle returned nothing
C23_Witness ==
    \E t \in Threads :
        /\ pc[t] = "fetching" /\ acct[t] = 2 /\ all_tweets[t] = <<>>
        /\ last_tweet_ids[Accounts[1]] # None

\* the replies on which fetch_tweets has no posts to return
FailureKinds == ReplyKinds \ {"success"}

\* C24: on a transport failure, a status other than 200, an unsuccessful or
\* a malformed payload, fetch_tweets returns the empty list and raises
\* nothing: no exception of fetch_tweets ever reaches _monitoring_job, and the
\* step that fetched the failing account keeps the posts collected so far,
\* stays in the loop of process_accounts and moves on to the next account.
C24_FetchFailureContained ==
    /\ [](\A t \in Threads :
            /\ exc[t] \notin {"RequestException", "ValueError"}
            /\ last_fetch[t].kind \in FailureKinds
                 => last_fetch[t].tweets = <<>> /\ pc[t] = "fetching")
    /\ [][\A t \in Threads :
            pc[t] = "fetching" /\ last_fetch'[t] # last_fetch[t]
              /\ last_fetch'[t].kind \in FailureKinds
            => /\ acct'[t] = acct[t] + 1
               /\ all_tweets'[t] = all_tweets[t]
               /\ pc'[t] = "fetching"]_vars

\* the second account answered with a malformed payload and the posts of the
\* first are still in the list
C24_Witness ==
    \E t \in Threads :
        /\ last_fetch[t].kind = "malformed" /\ acct[t] = 3
        /\ all_tweets[t] # <<>> /\ pc[t] = "fetching"

\* the moves of a thread through _monitoring_job: the straight path, the
\* return on no tweets, and the way out through the handler
CycleEdges ==
    {<<"idle", "fetching">>, <<"fetching", "classifying">>,
     <<"classifying", "storing">>, <<"storing", "finally">>,
     <<"fetching", "finally">>,
     <<"fetching", "except">>, <<"classifying", "except">>, <<"storing", "except">>,
     <<"except", "finally">>, <<"finally", "idle">>}

\* s is an initial part of q
IsPrefix(s, q) == Len(s) <= Len(q) /\ \A i \in DOMAIN s : s[i] = q[i]

\* C21: a cycle goes idle, fetching, classifying, storing, idle (or leaves
\* early): fetch at most once and before classify, classify at most once and
\* before store, the store step is handed the pairs of the classify step one
\* by one and unchanged, and no step is entered without the lock held
C21_CycleOrder ==
    /\ [](\A t \in Threads :
            /\ IsPrefix(steps[t], <<"fetch", "classify", "store">>)
            /\ pc[t] \in {"fetching", "classifying", "storing"} => monitor_lock
            /\ pc[t] = "storing" =>
                 /\ Len(attempts[t]) <= Len(analyzed_tweets[t])
                 /\ \A j \in DOMAIN attempts[t] : attempts[t][j].index = j)
    /\ [][\A t \in Threads :
            /\ pc'[t] # pc[t] => <<pc[t], pc'[t]>> \in CycleEdges
            /\ (pc[t] = "storing" /\ pc'[t] = "storing")
                 => analyzed_tweets'[t] = analyzed_tweets[t]]_vars

\* a cycle made its three steps in order and is about to release the lock
C21_Witness ==
    \E t \in Threads :
        /\ pc[t] = "finally" /\ outcome[t] = "completed"
        /\ steps[t] = <<"fetch", "classify", "store">>
        /\ attempts[t] # <<>> /\ Len(attempts[t]) = Len(analyzed_tweets[t])

(***************************************************************************)
(* Re-fetch model: the cycles of one account run one after the other, the  *)
(* upstream ignores the cursor, and the process may restart.               *)
(***************************************************************************)
WindowAccounts == <<"alice">>

WindowNext ==
    \/ MonitoringJob_Tick(1)
    \/ ProcessAccounts_Fetch(1, WindowAccounts, UpstreamReplies(WindowTweets, MaxWindow))
    \/ MonitoringJob_Fetched(1, WindowAccounts)
    \/ MonitoringJob_Analyze(1, Completions)
    \/ StoreBatch_Item(1)
    \/ MonitoringJob_Stored(1)
    \/ MonitoringJob_Raise(1)
    \/ MonitoringJob_Except(1)
    \/ MonitoringJob_Finally(1)
    \/ ProcessRestart

WindowSpec == Init /\ [][WindowNext]_vars

RecordsOf(objs, id) == {i \in DOMAIN objs : objs[i].properties.tweet_id = id}

\* C6: after any sequence of ingestion cycles (overlapping windows, an
\* upstream that ignores the cursor, cursors lost in a restart) the store
\* holds at most one record per post id
C6_AtMostOneRecordPerId ==
    \A id \in PostIds : Cardinality(RecordsOf(objects, id)) <= 1

\* after a restart a cycle fetched a post that is already stored, twice
C6_Witness ==
    /\ restarts > 0 /\ pc[1] = "finally" /\ outcome[1] = "completed"
    /\ last_tweet_ids["alice"] # None
    /\ stats[1].existing_tweets >= 2
    /\ Len(objects) = Cardinality(PostIds)


\* post ids grow with time: p1 was posted before p2
Rank(id) == IF id = "p1" THEN 1 ELSE 2

\* the posts a fetch step added to all_tweets
Fetched(t) == SubSeq(all_tweets'[t], Len(all_tweets[t]) + 1, Len(all_tweets'[t]))

\* C22: whatever the upstream answers, an account's cursor is never replaced
\* by the id of an older post, and after a non-empty fetch it is the most
\* recent post id of that fetch
C22_CursorMonotonic ==
    [][/\ \A a \in AccountNames :
            (last_tweet_ids[a] # None /\ last_tweet_ids'[a] # None)
                => Rank(last_tweet_ids'[a]) >= Rank(last_tweet_ids[a])
       /\ (pc[1] = "fetching" /\ acct'[1] = acct[1] + 1 /\ Fetched(1) # <<>>)
            => \A i \in DOMAIN Fetched(1) :
                 Rank(last_tweet_ids'[WindowAccounts[acct[1]]]) >= Rank(Fetched(1)[i].id)]_vars

(***************************************************************************)
(* Direct calls of store_tweet (specification StoreSpec)                   *)
(***************************************************************************)
\* the creation timestamps of the direct calls: one of each format
StoreCreatedAts ==
    {TsCanonical, TsLegacyShortDay, TsGarbage}

StoreTweets ==
    {Tweet(id, text, createdAt, ok) :
        id \in PostIds, text \in {TxtBtcRally, TxtEthDip},
        createdAt \in StoreCreatedAts, ok \in BOOLEAN}

RECURSIVE SumLen(_, _)
SumLen(f, S) ==
    IF S = {} THEN 0
    ELSE LET x == CHOOSE y \in S : TRUE IN Len(f[x]) + SumLen(f, S \ {x})

\* a caller calls storage.store_tweet(tweet_data, sentiment)
StoreTweet_Call(tweets, sentiments) ==
    /\ SumLen(log, StoreKeys) < MaxCalls
    /\ \E tweet_data \in tweets, sentiment \in sentiments,
          backend \in {"up", "down"}, now \in Instants :
         LET r == store_tweet(objects, tweet_data, sentiment, backend, now)
         IN  /\ objects' = r.objects
             /\ log' = [log EXCEPT ![tweet_data.id] =
                    Append(@, [result |-> r.result,
                               accepted |-> backend = "up" /\ tweet_data.countsOk])]
             /\ last_call' = [id |-> tweet_data.id, tweet_data |-> tweet_data,
                              sentiment |-> sentiment, now |-> now,
                              result |-> r.result]
    /\ UNCHANGED <<monitor_lock, pc, acct, all_tweets, analyzed_tweets, item, stats,
                   attempts, exc, steps, outcome, restarts, last_tweet_ids, last_fetch>>
    /\ UNCHANGED <<pure_vars, notify_vars, alert_vars>>

StoreNext == StoreTweet_Call(StoreTweets, Sentiments)

StoreSpec == Init /\ [][StoreNext]_vars

IsAccepted(e) == e.accepted
Accepted(id) == SelectSeq(log[id], IsAccepted)
StoredRecord(id) == objects[CHOOSE i \in RecordsOf(objects, id) : TRUE].properties

\* C5: of the store_tweet calls for one post id that the store accepts, the
\* first returns "new" and every later one "existing", whatever its text and
\* sentiment; the store then holds exactly one record for the id; and the
\* identity key depends on the post id alone
C5_NewThenExisting ==
    /\ \A id \in PostIds :
         LET ok == Accepted(id)
         IN  /\ \A k \in DOMAIN ok :
                    ok[k].result = IF k = 1 THEN "new" ELSE "existing"
             /\ Cardinality(RecordsOf(objects, id)) = IF ok = <<>> THEN 0 ELSE 1
    /\ \A a, b \in StoreTweets : a.id = b.id => tweet_uuid(a) = tweet_uuid(b)

\* the second accepted call for an id came with another text and sentiment
C5_Witness ==
    \E id \in PostIds :
        /\ Len(Accepted(id)) = 2 /\ Len(log[id]) = 2
        /\ last_call.id = id /\ last_call.result = "existing"
        /\ StoredRecord(id).tweet_text # last_call.tweet_data.text
        /\ StoredRecord(id).sentiment # last_call.sentiment

\* C7: a store_tweet call for a post id that is already stored leaves the
\* store as it is: the record keeps the text, sentiment and timestamp of the
\* first write
C7_ExistingRecordUnchanged ==
    [][\A id \in PostIds :
          (Len(log'[id]) > Len(log[id]) /\ RecordsOf(objects, id) # {})
              => objects' = objects]_vars

\* a call for a stored id carried another text, sentiment and timestamp
C7_Witness ==
    /\ last_call # NoCall
    /\ last_call.result = "existing"
    /\ LET rec == StoredRecord(last_call.id)
       IN  /\ rec.tweet_text # last_call.tweet_data.text
           /\ rec.sentiment # last_call.sentiment
           /\ rec.timestamp #
                  convert_timestamp_to_rfc3339(created_at(last_call.tweet_data, last_call.now),
                                               last_call.now)

(***************************************************************************)
(* Direct calls of store_tweets_batch (specification BatchSpec)            *)
(***************************************************************************)
\* longest batch that is explored
MaxBatch == 3

BatchPairs ==
    {<<Tweet(id, TxtBtcRally, TsLegacy, ok), "positive">> :
        id \in PostIds, ok \in BOOLEAN}

\* a caller calls storage.store_tweets_batch(analyzed_tweets), lines 229-234
StoreBatch_Call ==
    /\ pc[1] \in {"idle", "batch_returned"}
    /\ \E batch \in SeqUpTo(BatchPairs, MaxBatch) :
         analyzed_tweets' = [analyzed_tweets EXCEPT ![1] = batch]
    /\ pc' = [pc EXCEPT ![1] = "storing"]
    /\ item' = [item EXCEPT ![1] = 1]
    /\ stats' = [stats EXCEPT ![1] = EmptyStats(Len(analyzed_tweets'[1]))]
    /\ attempts' = [attempts EXCEPT ![1] = <<>>]
    /\ steps' = [steps EXCEPT ![1] = <<>>]
    /\ UNCHANGED <<monitor_lock, acct, all_tweets, exc, outcome, restarts,
                   last_tweet_ids, last_fetch, objects>>
    /\ UNCHANGED <<call_vars, notify_vars, alert_vars>>

\* line 254: store_tweets_batch returns stats
StoreBatch_Return ==
    /\ pc[1] = "storing"
    /\ item[1] > Len(analyzed_tweets[1])
    /\ pc' = [pc EXCEPT ![1] = "batch_returned"]
    /\ UNCHANGED <<monitor_lock, acct, all_tweets, analyzed_tweets, item, stats,
                   attempts, exc, steps, outcome, restarts, last_tweet_ids, last_fetch, objects>>
    /\ UNCHANGED <<call_vars, notify_vars, alert_vars>>

BatchNext ==
    \/ StoreBatch_Call
    \/ StoreBatch_Item(1)
    \/ StoreBatch_Return

BatchSpec == Init /\ [][BatchNext]_vars

CountResults(a, r) == Cardinality({k \in DOMAIN a : a[k].result = r})

\* C8: the stats store_tweets_batch returns add up: new_tweets +
\* existing_tweets + errors = total_processed = number of items of the batch
C8_StatsAddUp ==
    pc[1] = "batch_returned" =>
        /\ stats[1].new_tweets + stats[1].existing_tweets + stats[1].errors
               = stats[1].total_processed
        /\ stats[1].total_processed = Len(analyzed_tweets[1])

\* a batch with a new, a duplicate and a failing write has returned
C8_Witness ==
    /\ pc[1] = "batch_returned"
    /\ stats[1].new_tweets >= 1 /\ stats[1].existing_tweets >= 1
    /\ stats[1].errors >= 1

\* C9: an error on one item does not abort the batch: the items are
\* attempted one by one in input order, each exactly once whatever the
\* earlier results, every error is counted, and at the return every item of
\* the batch has been attempted
C9_ErrorDoesNotAbortBatch ==
    pc[1] \in {"storing", "batch_returned"} =>
        /\ Len(attempts[1]) = item[1] - 1
        /\ \A k \in DOMAIN attempts[1] : attempts[1][k].index = k
        /\ stats[1].errors = CountResults(attempts[1], "error")
        /\ pc[1] = "batch_returned" => Len(attempts[1]) = Len(analyzed_tweets[1])

\* the first write of a batch failed and the later ones were still made
C9_Witness ==
    /\ pc[1] = "batch_returned"
    /\ Len(attempts[1]) = 3
    /\ attempts[1][1].result = "error"
    /\ attempts[1][2].result = "new"
    /\ attempts[1][3].result = "error"


(***************************************************************************)
(* NotificationService.send_notification, one action per step of a caller  *)
(***************************************************************************)
\* time.time() moves
ClockAdvance ==
    /\ clock_steps < MaxClockSteps
    /\ clock_steps' = clock_steps + 1
    /\ \E d \in ClockDeltas : clock' = clock + d
    /\ UNCHANGED <<notification_method, telegram_configured, last_notification_time,
                   n_pc, n_call, n_current_time, n_last_time, n_result, emitted,
                   last_success, delivered>>
    /\ UNCHANGED <<ingest_vars, call_vars, alert_vars>>

\* a caller calls send_notification(message, keyword, channel)
SendNotification_Call(c) ==
    /\ n_pc[c] = "idle"
    /\ \E keyword \in Keywords, channel \in Channels :
         n_call' = [n_call EXCEPT ![c] = [keyword |-> keyword, channel |-> channel]]
    /\ n_pc' = [n_pc EXCEPT ![c] = "read"]
    /\ n_result' = [n_result EXCEPT ![c] = None]
    /\ delivered' = [delivered EXCEPT ![c] = {}]
    /\ UNCHANGED <<clock, clock_steps, notification_method, telegram_configured,
                   last_notification_time, n_current_time, n_last_time, emitted,
                   last_success>>
    /\ UNCHANGED <<ingest_vars, call_vars, alert_vars>>

\* _can_send_notification, lines 73-74: read the clock and the last time
CanSend_Read(c) ==
    /\ n_pc[c] = "read"
    /\ n_current_time' = [n_current_time EXCEPT ![c] = clock]
    /\ n_last_time' = [n_last_time EXCEPT ![c] =
           dict_get(last_notification_time, n_call[c].keyword, 0)]
    /\ n_pc' = [n_pc EXCEPT ![c] = "compare"]
    /\ UNCHANGED <<clock, clock_steps, notification_method, telegram_configured,
                   last_notification_time, n_call, n_result, emitted, last_success,
                   delivered>>
    /\ UNCHANGED <<ingest_vars, call_vars, alert_vars>>

\* mutant: the cooldown ends only after more than min_interval
cooldown_over_strict(current_time, last_time) == current_time - last_time > min_interval

\* line 76: the cooldown test
cooldown_over(current_time, last_time) == current_time - last_time >= min_interval

\* mutant: the time of the notification is not recorded
record_sent_dropped(times, keyword, current_time) == times

\* line 77: record the time of this notification
record_sent(times, keyword, current_time) == dict_set(times, keyword, current_time)

\* mutant: a refused call restarts the cooldown
refused_times_restarted(times, keyword, current_time) ==
    dict_set(times, keyword, current_time)

\* line 79: return False writes nothing
refused_times(times, keyword, current_time) == times

\* _can_send_notification, lines 76-79, and lines 121-125 of send_notification
CanSend_Compare(c) ==
    /\ n_pc[c] = "compare"
    /\ IF cooldown_over(n_current_time[c], n_last_time[c])
       THEN /\ last_notification_time' =
                   record_sent(last_notification_time, n_call[c].keyword,
                               n_current_time[c])
            /\ emitted' = [emitted EXCEPT ![n_call[c].keyword] =
                   Append(@, n_current_time[c])]
            /\ n_pc' = [n_pc EXCEPT ![c] = "deliver"]
            /\ UNCHANGED <<n_result, n_current_time>>
       ELSE /\ last_notification_time' =
                   refused_times(last_notification_time, n_call[c].keyword,
                                 n_current_time[c])
            /\ n_pc' = [n_pc EXCEPT ![c] = "idle"]
            /\ n_result' = [n_result EXCEPT ![c] = "False"]
            /\ n_current_time' = [n_current_time EXCEPT ![c] = 0]
            /\ UNCHANGED emitted
    /\ n_last_time' = [n_last_time EXCEPT ![c] = 0]
    /\ UNCHANGED <<clock, clock_steps, notification_method, telegram_configured,
                   n_call, last_success, delivered>>
    /\ UNCHANGED <<ingest_vars, call_vars, alert_vars>>

\* lines 128 and 133: the channels a call delivers on
uses_console(channel, method) ==
    channel \in {"all", "console"} \/ method \in {"all", "console"}
uses_telegram(channel, method) ==
    channel \in {"all", "telegram"} \/ method \in {"all", "telegram"}

\* mutant: the POST is made whether or not the credentials are set
send_telegram_without_check(configured, transport_ok) ==
    [success |-> transport_ok, posted |-> TRUE]

\* _send_telegram: without token or chat id it returns False and makes no
\* request (lines 90-92); else it POSTs and returns whether that went through
\* (lines 94-107)
send_telegram(configured, transport_ok) ==
    [success |-> configured /\ transport_ok, posted |-> configured]

\* send_notification, lines 125-137: deliver and return success
SendNotification_Deliver(c) ==
    /\ n_pc[c] = "deliver"
    /\ \E transport_ok \in BOOLEAN :
         LET console == uses_console(n_call[c].channel, notification_method)
             telegram == uses_telegram(n_call[c].channel, notification_method)
             sent == send_telegram(telegram_configured, transport_ok)
             telegram_success == sent.success
             success == console \/ (telegram /\ telegram_success)
         IN  /\ delivered' = [delivered EXCEPT ![c] =
                    (IF console THEN {"console"} ELSE {})
                      \cup (IF telegram THEN {"telegram"} ELSE {})
                      \cup (IF telegram /\ sent.posted
                            THEN {"telegram_post"} ELSE {})
                      \cup (IF telegram /\ sent.posted /\ transport_ok
                            THEN {"telegram_ok"} ELSE {})]
             /\ n_result' = [n_result EXCEPT ![c] = IF success THEN "True" ELSE "False"]
             /\ last_success' =
                    IF success
                    THEN dict_set(last_success, n_call[c].keyword, n_current_time[c])
                    ELSE last_success
    /\ n_pc' = [n_pc EXCEPT ![c] = "idle"]
    /\ n_current_time' = [n_current_time EXCEPT ![c] = 0]
    /\ UNCHANGED <<clock, clock_steps, notification_method, telegram_configured,
                   last_notification_time, n_call, n_last_time, emitted>>
    /\ UNCHANGED <<ingest_vars, call_vars, alert_vars>>

\* every configuration of the service
NotifyConfigInit ==
    /\ IngestInit /\ StoreCallInit /\ PureInit /\ AlertInit
    /\ NotifyInit({"console", "telegram", "all"}, BOOLEAN)

\* the calls of send_notification follow one another (one caller)
NotifySeqNext ==
    \/ ClockAdvance
    \/ SendNotification_Call(1)
    \/ CanSend_Read(1)
    \/ CanSend_Compare(1)
    \/ SendNotification_Deliver(1)

NotifySeqSpec == NotifyConfigInit /\ [][NotifySeqNext]_vars

\* C10: for every keyword, any two send_notification calls that passed the
\* cooldown gate did so at least min_interval (3600 s) apart
C10_CooldownBetweenAlerts ==
    \A k \in Keywords :
        \A i, j \in DOMAIN emitted[k] :
            i < j => emitted[k][j] - emitted[k][i] >= min_interval

\* a second call for a keyword passed the gate exactly min_interval after the
\* first and returned True
C10_Witness ==
    \E k \in Keywords :
        /\ Len(emitted[k]) = 2
        /\ emitted[k][2] - emitted[k][1] = min_interval
        /\ n_pc[1] = "idle" /\ n_call[1].keyword = k /\ n_result[1] = "True"

\* the step at which the cooldown refuses the call of caller c (lines 121-123)
Refused(c) == n_pc[c] = "compare" /\ n_pc'[c] = "idle"

\* C12: a send_notification call refused by the cooldown returns False,
\* attempts no console or webhook delivery, and leaves the keyword's last
\* notification time as it was: no step of the call before the gate, nor the
\* refusal itself, changes last_notification_time
C12_RefusedIsNoOp ==
    [][/\ (n_pc[1] \in {"idle", "read"} \/ Refused(1))
            => last_notification_time' = last_notification_time
       /\ Refused(1)
            => /\ n_result'[1] = "False"
               /\ delivered[1] = {} /\ delivered'[1] = {}]_vars

\* a call for a keyword that was notified before has been refused
C12_Witness ==
    /\ n_pc[1] = "idle" /\ n_result[1] = "False" /\ delivered[1] = {}
    /\ n_call[1].keyword \in DOMAIN last_notification_time
    /\ clock - last_notification_time[n_call[1].keyword] < min_interval

\* the step at which _can_send_notification decides the call of caller c
Decided(c) == n_pc[c] = "compare" /\ n_pc'[c] # "compare"

\* C13, as amended: send_notification is refused by the cooldown exactly when
\* the elapsed time since the last call that passed the cooldown gate for
\* that keyword is below min_interval, whether or not that call delivered
\* anything; with no earlier pass the call is not refused
C13_RefusedIffWithinCooldownOfLastPass ==
    [][Decided(1) =>
         LET k == n_call[1].keyword
         IN  Refused(1) <=>
               /\ emitted[k] # <<>>
               /\ n_current_time[1] - emitted[k][Len(emitted[k])] < min_interval]_vars

\* a call that passed the gate failed on every channel, and the next call for
\* the keyword was refused inside the cooldown it started
C13_Witness ==
    LET k == n_call[1].keyword
    IN  /\ n_pc[1] = "idle" /\ n_result[1] = "False" /\ delivered[1] = {}
        /\ emitted[k] # <<>>
        /\ k \notin DOMAIN last_success

\* C13, as stated: the refusal is decided by the elapsed time since the last
\* successful send for the keyword, so a call whose delivery failed on every
\* channel starts no cooldown
C13_RefusedIffWithinCooldownOfLastSuccess ==
    [][Decided(1) =>
         LET k == n_call[1].keyword
         IN  Refused(1) <=>
               /\ k \in DOMAIN last_success
               /\ n_current_time[1] - last_success[k] < min_interval]_vars

\* caller c's last call passed the cooldown gate and has returned
PassedAndReturned(c) == n_pc[c] = "idle" /\ delivered[c] # {}

\* C14: a send_notification call that passed the cooldown gate returns True
\* iff a channel it attempted succeeded: the console always does, the webhook
\* only when its request went through, and a webhook without token or chat
\* id makes no request and reports non-delivery
C14_TrueIffAChannelSucceeded ==
    PassedAndReturned(1) =>
        /\ n_result[1] = "True"
             <=> ("console" \in delivered[1] \/ "telegram_ok" \in delivered[1])
        /\ "telegram_ok" \in delivered[1] => "telegram_post" \in delivered[1]
        /\ "telegram_post" \in delivered[1]
             => ("telegram" \in delivered[1] /\ telegram_configured)

\* the webhook was the only channel, its request was made and failed, and
\* the call returned False
C14_Witness ==
    /\ PassedAndReturned(1)
    /\ delivered[1] = {"telegram", "telegram_post"}
    /\ n_result[1] = "False"

\* C15: send_notification attempts delivery only on the channel its channel
\* argument names, whatever notification_method is configured: no webhook
\* call with channel "console", no console line with channel "telegram"
C15_OnlyRequestedChannel ==
    PassedAndReturned(1) =>
        /\ n_call[1].channel = "console" => "telegram" \notin delivered[1]
        /\ n_call[1].channel = "telegram" => "console" \notin delivered[1]

(***************************************************************************)
(* Overlapping calls of NotificationService.send_notification              *)
(***************************************************************************)
\* two threads call send_notification on one service; a thread may be
\* preempted between any two statements of _can_send_notification, which
\* takes no lock. The calls overlap within one reading of the clock.
NotifyRaceNext ==
    \E c \in Callers :
         \/ SendNotification_Call(c)
         \/ CanSend_Read(c)
         \/ CanSend_Compare(c)
         \/ SendNotification_Deliver(c)

NotifyRaceSpec == Init /\ [][NotifyRaceNext]_vars

\* the last two times at which a call for keyword k passed the cooldown
LastTwoApart(k) ==
    emitted[k][Len(emitted[k])] - emitted[k][Len(emitted[k]) - 1] >= min_interval

\* C11: when two send_notification calls for the same keyword overlap, at
\* most one of them passes the cooldown gate and attempts delivery: two calls
\* are never both between the gate and their return unless they passed it
\* at least min_interval apart
C11_OverlapSendsOnce ==
    \A c1, c2 \in Callers :
        (/\ c1 # c2
         /\ n_pc[c1] = "deliver" /\ n_pc[c2] = "deliver"
         /\ n_call[c1].keyword = n_call[c2].keyword)
        => LastTwoApart(n_call[c1].keyword)

(***************************************************************************)
(* Direct calls of NotificationService.check_sentiment_threshold           *)
(***************************************************************************)
\* the caller adds a record to the sample it will pass
Threshold_AddRecord ==
    /\ Len(t_sentiments) < MaxSample
    /\ \E s \in SampleRecords : t_sentiments' = Append(t_sentiments, s)
    /\ t_threshold' = 0
    /\ t_result' = NoResult
    /\ UNCHANGED <<ingest_vars, call_vars, notify_vars, job_vars>>

\* check_sentiment_threshold(sentiments, threshold) is called and returns
Threshold_Call ==
    /\ t_result = NoResult
    /\ \E threshold \in Thresholds :
         /\ t_threshold' = threshold
         /\ t_result' = check_sentiment_threshold(t_sentiments, threshold)
    /\ UNCHANGED t_sentiments
    /\ UNCHANGED <<ingest_vars, call_vars, notify_vars, job_vars>>

ThresholdNext == Threshold_AddRecord \/ Threshold_Call

ThresholdSpec == Init /\ [][ThresholdNext]_vars

\* the records of a sample that are labelled positive
PositiveIn(sentiments) ==
    {i \in DOMAIN sentiments :
        "sentiment" \in DOMAIN sentiments[i] /\ sentiments[i].sentiment = "positive"}

\* C16: with fewer than 10 records check_sentiment_threshold returns
\* triggered = False with the reason "Not enough data", whatever the number
\* of positive records and the threshold
C16_TooFewRecords ==
    (t_result # NoResult /\ Len(t_sentiments) < 10)
        => t_result = [triggered |-> FALSE, reason |-> "Not enough data"]

\* nine records, all positive, threshold 0: not triggered
C16_Witness ==
    /\ Len(t_sentiments) = 9 /\ Cardinality(PositiveIn(t_sentiments)) = 9
    /\ t_threshold = 0
    /\ t_result # NoResult /\ ~t_result.triggered

\* C17, as amended: with at least 10 records the result has positive_count =
\* the number of records labelled positive, total_count = the number of
\* records, triggered = (positive_count >= threshold), and percentage =
\* positive_count / total_count * 100 rounded to one decimal place
C17_ThresholdResult ==
    (t_result # NoResult /\ Len(t_sentiments) >= 10) =>
        LET P == Cardinality(PositiveIn(t_sentiments))
            N == Len(t_sentiments)
            d == t_result.percentage * N - 1000 * P
        IN  /\ DOMAIN t_result =
                 {"triggered", "positive_count", "total_count", "percentage"}
            /\ t_result.positive_count = P
            /\ t_result.total_count = N
            /\ t_result.triggered = (P >= t_threshold)
            /\ 2 * d <= N /\ 2 * d >= -N

\* 10 records with 7 positive and threshold 7: triggered, 70.0 percent
C17_Witness ==
    /\ Len(t_sentiments) = 10 /\ Cardinality(PositiveIn(t_sentiments)) = 7
    /\ t_threshold = 7
    /\ t_result # NoResult /\ t_result.triggered /\ t_result.percentage = 700

\* C17, as stated: percentage is exactly positive_count / total_count * 100
C17_ExactPercentage ==
    (t_result # NoResult /\ Len(t_sentiments) >= 10) =>
        /\ t_result.triggered = (t_result.positive_count >= t_threshold)
        /\ t_result.positive_count = Cardinality(PositiveIn(t_sentiments))
        /\ t_result.total_count = Len(t_sentiments)
        /\ t_result.percentage * Len(t_sentiments) = 1000 * t_result.positive_count

(***************************************************************************)
(* ScheduleManager._notification_check_job, one action per step            *)
(***************************************************************************)
\* the scheduler thread that runs the job is caller 1 of the notifier
JobCaller == 1

\* mutant: the job takes monitor_lock when it starts
lock_taken_by_check_job(lock) == TRUE

\* lines 87-89: the job starts with `try:`; it never touches monitor_lock
lock_after_check_job(lock) == lock

\* the scheduler fires the job: lines 87-92
NotificationCheckJob_Start ==
    /\ a_pc = "idle"
    /\ monitor_lock' = lock_after_check_job(monitor_lock)
    /\ a_pc' = "query"
    /\ a_kw' = 1
    /\ a_queried' = <<>>
    /\ a_evaluated' = <<>>
    /\ a_outcome' = "running"
    /\ a_under_lock' = monitor_lock
    /\ UNCHANGED <<a_latest, a_result>>
    /\ UNCHANGED <<ingest_rest, call_vars, notify_vars, threshold_vars>>

\* mutant: an empty result ends the loop
break_loop(i, n) == n + 1

\* lines 96-98: continue with the next keyword
continue_loop(i, n) == i + 1

\* lines 94-98: query the current keyword; an empty result skips it
NotificationCheckJob_Query(replies) ==
    /\ a_pc = "query"
    /\ a_kw <= Len(AlertKeywords)
    /\ \E reply \in replies :
         LET latest_sentiments == get_latest_sentiments(reply, latest_count)
         IN  /\ a_queried' = Append(a_queried,
                    [keyword |-> AlertKeywords[a_kw], reply |-> reply.kind,
                     found |-> Len(latest_sentiments)])
             /\ IF latest_sentiments = <<>>
                THEN /\ a_kw' = continue_loop(a_kw, Len(AlertKeywords))
                     /\ UNCHANGED <<a_pc, a_latest>>
                ELSE /\ a_latest' = latest_sentiments
                     /\ a_pc' = "evaluate"
                     /\ UNCHANGED a_kw
    /\ a_under_lock' = (a_under_lock /\ monitor_lock)
    /\ UNCHANGED <<a_result, a_evaluated, a_outcome>>
    /\ UNCHANGED <<ingest_vars, call_vars, notify_vars, threshold_vars>>

\* settings.sentiment_threshold as the environment may set it
ConfiguredThresholds == {5, 7, 9}

\* mutant: the job passes the configured threshold on
job_threshold_configured(sentiment_threshold) ==
    sentiment_threshold

\* line 101: check_sentiment_threshold is called without a threshold, so
\* the parameter takes its default whatever the settings say
job_threshold(sentiment_threshold) ==
    default_threshold

\* lines 101-103 and 116-120: evaluate the threshold
NotificationCheckJob_Evaluate ==
    /\ a_pc = "evaluate"
    /\ \E sentiment_threshold \in ConfiguredThresholds :
       LET result == check_sentiment_threshold(a_latest, job_threshold(sentiment_threshold))
       IN  /\ a_evaluated' = Append(a_evaluated, AlertKeywords[a_kw])
           /\ IF result.triggered
              THEN /\ a_result' = result
                   /\ a_pc' = "notify"
                   /\ UNCHANGED <<a_kw, a_latest>>
              ELSE /\ a_kw' = a_kw + 1
                   /\ a_pc' = "query"
                   /\ a_latest' = <<>>
                   /\ UNCHANGED a_result
    /\ a_under_lock' = (a_under_lock /\ monitor_lock)
    /\ UNCHANGED <<a_queried, a_outcome>>
    /\ UNCHANGED <<ingest_vars, call_vars, notify_vars, threshold_vars>>

\* lines 104-111: call send_notification(message, keyword), channel "all"
NotificationCheckJob_Notify ==
    /\ a_pc = "notify"
    /\ n_pc[JobCaller] = "idle"
    /\ n_call' = [n_call EXCEPT ![JobCaller] =
                     [keyword |-> AlertKeywords[a_kw], channel |-> "all"]]
    /\ n_pc' = [n_pc EXCEPT ![JobCaller] = "read"]
    /\ n_result' = [n_result EXCEPT ![JobCaller] = None]
    /\ delivered' = [delivered EXCEPT ![JobCaller] = {}]
    /\ a_pc' = "sending"
    /\ UNCHANGED <<clock, clock_steps, notification_method, telegram_configured,
                   last_notification_time, n_current_time, n_last_time, emitted,
                   last_success>>
    /\ a_under_lock' = (a_under_lock /\ monitor_lock)
    /\ UNCHANGED <<a_kw, a_latest, a_result, a_queried, a_evaluated, a_outcome>>
    /\ UNCHANGED <<ingest_vars, call_vars, threshold_vars>>

\* lines 111-115: send_notification has returned; next keyword
NotificationCheckJob_Notified ==
    /\ a_pc = "sending"
    /\ n_pc[JobCaller] = "idle"
    /\ a_kw' = a_kw + 1
    /\ a_pc' = "query"
    /\ a_latest' = <<>>
    /\ a_result' = NoResult
    /\ a_under_lock' = (a_under_lock /\ monitor_lock)
    /\ UNCHANGED <<a_queried, a_evaluated, a_outcome>>
    /\ UNCHANGED <<ingest_vars, call_vars, notify_vars, threshold_vars>>

\* the for loop is exhausted: the job returns
NotificationCheckJob_Return ==
    /\ a_pc = "query"
    /\ a_kw > Len(AlertKeywords)
    /\ a_pc' = "idle"
    /\ a_kw' = 0
    /\ a_outcome' = "completed"
    /\ a_under_lock' = (a_under_lock /\ monitor_lock)
    /\ UNCHANGED <<a_latest, a_result, a_queried, a_evaluated>>
    /\ UNCHANGED <<ingest_vars, call_vars, notify_vars, threshold_vars>>

\* mutant: the try block is inside the for loop, the next keyword follows
after_exception_next_keyword(i, n) ==
    [pc |-> "query", kw |-> i + 1]

\* lines 89-123: the for loop is inside the try block, so the handler runs
\* after the loop was left and the job returns
after_exception(i, n) ==
    [pc |-> "idle", kw |-> 0]

\* lines 101-115 and 122-123: check_sentiment_threshold, the formatting of
\* the message or send_notification raises for the current keyword; the
\* handler of the job logs the exception
NotificationCheckJob_Raise ==
    /\ \/ a_pc \in {"evaluate", "notify"}
       \/ a_pc = "sending" /\ n_pc[JobCaller] = "deliver"
    /\ \E e \in Raisable :
         a_outcome' = IF except_clause(e) THEN "failed" ELSE "propagated"
    /\ LET n == after_exception(a_kw, Len(AlertKeywords))
       IN  a_pc' = n.pc /\ a_kw' = n.kw
    /\ IF a_pc = "sending"
       THEN \* send_notification is left by the exception
            /\ n_pc' = [n_pc EXCEPT ![JobCaller] = "idle"]
            /\ n_current_time' = [n_current_time EXCEPT ![JobCaller] = 0]
            /\ UNCHANGED <<clock, clock_steps, notification_method, telegram_configured,
                           last_notification_time, n_call, n_last_time, n_result,
                           emitted, last_success, delivered>>
       ELSE UNCHANGED notify_vars
    /\ a_latest' = <<>>
    /\ a_result' = NoResult
    /\ a_under_lock' = (a_under_lock /\ monitor_lock)
    /\ UNCHANGED <<a_queried, a_evaluated>>
    /\ UNCHANGED <<ingest_vars, call_vars, threshold_vars>>

AlertNext ==
    \/ ClockAdvance
    \/ NotificationCheckJob_Start
    \/ NotificationCheckJob_Query(QueryReplies)
    \/ NotificationCheckJob_Evaluate
    \/ NotificationCheckJob_Notify
    \/ CanSend_Read(JobCaller)
    \/ CanSend_Compare(JobCaller)
    \/ SendNotification_Deliver(JobCaller)
    \/ NotificationCheckJob_Notified
    \/ NotificationCheckJob_Return

AlertSpec == Init /\ [][AlertNext]_vars

\* the keywords of the queries of a run, in order
QueriedKeywords == [i \in DOMAIN a_queried |-> a_queried[i].keyword]

\* the keywords whose query found something, in order
FoundKeywords ==
    LET found == SelectSeq(a_queried, LAMBDA q : q.found > 0)
    IN  [i \in DOMAIN found |-> found[i].keyword]

\* C18: a query failure or an empty result for one keyword skips only that
\* keyword: a run that has returned has queried every configured keyword, in
\* order, and evaluated each keyword whose query found records; while it runs
\* it has evaluated every keyword found so far but the current one
C18_SkipsOnlyThatKeyword ==
    /\ a_outcome = "completed"
         => (QueriedKeywords = AlertKeywords /\ a_evaluated = FoundKeywords)
    /\ a_outcome = "running"
         => \/ a_evaluated = FoundKeywords
            \/ (a_pc = "evaluate" /\ Append(a_evaluated, AlertKeywords[a_kw]) = FoundKeywords)

\* the query for the first keyword failed, the one for the second found
\* records, and the run evaluated the second keyword and returned
C18_Witness ==
    /\ a_outcome = "completed"
    /\ Len(a_queried) = 2
    /\ a_queried[1].reply = "raise"
    /\ a_queried[2].found > 0
    /\ a_evaluated = <<AlertKeywords[2]>>

(***************************************************************************)
(* _monitoring_job and _notification_check_job side by side: one thread of *)
(* the scheduler runs the ingestion ticks, another the alert checks        *)
(***************************************************************************)
\* what the store answers to the alert queries here
LockQueryReplies ==
    {[kind |-> "raise", tweets |-> <<>>], [kind |-> "ok", tweets |-> Sample(7, 10)]}

AlertLockNext ==
    \/ MonitoringJob_Tick(1)
    \/ ProcessAccounts_Fetch(1, WindowAccounts, UpstreamReplies(LockTweets, MaxFetch))
    \/ MonitoringJob_Fetched(1, WindowAccounts)
    \/ MonitoringJob_Analyze(1, LockCompletions)
    \/ StoreBatch_Item(1)
    \/ MonitoringJob_Stored(1)
    \/ MonitoringJob_Raise(1)
    \/ MonitoringJob_Except(1)
    \/ MonitoringJob_Finally(1)
    \/ NotificationCheckJob_Start
    \/ NotificationCheckJob_Query(LockQueryReplies)
    \/ NotificationCheckJob_Evaluate
    \/ NotificationCheckJob_Notify
    \/ CanSend_Read(JobCaller)
    \/ CanSend_Compare(JobCaller)
    \/ SendNotification_Deliver(JobCaller)
    \/ NotificationCheckJob_Notified
    \/ NotificationCheckJob_Return

AlertLockSpec == Init /\ [][AlertLockNext]_vars

\* the alert job has a step it can take now
JobCanStep ==
    /\ a_pc = "idle" => ENABLED NotificationCheckJob_Start
    /\ a_pc = "query" =>
         ENABLED (NotificationCheckJob_Query(LockQueryReplies) \/ NotificationCheckJob_Return)
    /\ a_pc = "evaluate" => ENABLED NotificationCheckJob_Evaluate
    /\ a_pc = "notify" => ENABLED NotificationCheckJob_Notify
    /\ a_pc = "sending" =>
         ENABLED (\/ CanSend_Read(JobCaller) \/ CanSend_Compare(JobCaller)
                  \/ SendNotification_Deliver(JobCaller) \/ NotificationCheckJob_Notified)

\* C19: the alert job never acquires or waits for monitor_lock: whether the
\* lock is held or not its next step can be taken, no step of it changes the
\* lock or the ingestion side, and beside it alone no ingestion tick is
\* ever skipped
C19_AlertIgnoresLock ==
    /\ [](JobCanStep /\ outcome[1] # "skipped")
    /\ [][(job_vars' # job_vars \/ notify_vars' # notify_vars)
            => (monitor_lock' = monitor_lock /\ ingest_rest' = ingest_rest)]_vars

\* a whole run of the alert job, with a notification sent, took place while
\* an ingestion cycle held the lock
C19_Witness ==
    /\ monitor_lock /\ pc[1] \in {"fetching", "classifying", "storing"}
    /\ a_outcome = "completed" /\ a_under_lock
    /\ a_evaluated # <<>>
    /\ n_result[JobCaller] = "True"

(***************************************************************************)
(* Keyword filter model: direct calls of fetch_tweets, over every reply of *)
(* an upstream that holds posts with and without keywords in either case,  *)
(* and every keywords argument.                                            *)
(***************************************************************************)
\* posts in one upstream reply
MaxReply == 3

TxtBtcEth == <<"B", "T", "C", " ", "e", "t", "h">>

FilterTweets ==
    {Tweet("p1", TxtBtcRally, TsLegacy, TRUE),
     Tweet("p2", TxtEthDip, TsLegacy, TRUE),
     Tweet("p3", TxtGm, TsLegacy, TRUE),
     Tweet("p4", TxtBtcEth, TsLegacy, TRUE)}

KeywordLists == {<<>>, <<KwBTC>>, <<KwETH>>, <<KwSOL>>, <<KwETH, KwBTC>>, crypto_keywords}

FilterInit ==
    /\ BaseInit /\ AnalyzeCallInit /\ QueryCallInit /\ ConvertCallInit /\ ExtraInit
    /\ f_reply \in UpstreamReplies(FilterTweets, MaxReply)
    /\ f_keywords \in KeywordLists
    /\ f_result = NotCalled

\* fetch_tweets(username, keywords) is called and returns
FetchTweets_Call ==
    /\ f_result = NotCalled
    /\ f_result' = [called |-> TRUE] @@ fetch_tweets(f_reply, f_keywords)
    /\ UNCHANGED <<f_reply, f_keywords>>
    /\ UNCHANGED <<ingest_vars, store_call_vars, analyze_call_vars, query_call_vars,
                   convert_call_vars, extra_vars,
                   notify_vars, alert_vars>>

FilterNext ==
    FetchTweets_Call

FilterSpec == FilterInit /\ [][FilterNext]_vars

\* text contains sub as a run of consecutive characters
HasSubstring(text, sub) ==
    \E i \in 1..(Len(text) + 1) : \E j \in (i - 1)..Len(text) : SubSeq(text, i, j) = sub

\* the posts of tweets at the positions in keep, in the order of tweets
RECURSIVE Pick(_, _, _)
Pick(tweets, keep, i) ==
    IF i > Len(tweets) THEN <<>>
    ELSE (IF i \in keep THEN <<tweets[i]>> ELSE <<>>) \o Pick(tweets, keep, i + 1)

\* C25: with keywords, fetch_tweets returns exactly the upstream posts whose
\* lowercased text contains at least one lowercased keyword as a substring,
\* in upstream order (keyword BTC keeps "btc rally" and drops a post that
\* mentions only ETH); with no keywords it returns every upstream post.
C25_KeywordFilter ==
    (f_result # NotCalled /\ f_reply.kind = "success") =>
        /\ f_result.raised = None
        /\ f_keywords = <<>> => f_result.tweets = f_reply.tweets
        /\ f_keywords # <<>> =>
              f_result.tweets = Pick(f_reply.tweets,
                  {i \in DOMAIN f_reply.tweets :
                      \E k \in DOMAIN f_keywords :
                          HasSubstring(lower(f_reply.tweets[i].text), lower(f_keywords[k]))}, 1)
        /\ (f_keywords = <<KwBTC>> /\ f_reply.tweets # <<>>) =>
              \A i \in DOMAIN f_reply.tweets :
                  /\ f_reply.tweets[i].text = TxtBtcRally
                       => \E j \in DOMAIN f_result.tweets : f_result.tweets[j] = f_reply.tweets[i]
                  /\ f_reply.tweets[i].text = TxtEthDip
                       => \A j \in DOMAIN f_result.tweets : f_result.tweets[j] # f_reply.tweets[i]

\* keyword BTC on a reply of an ETH-only post, "btc rally" and a post with
\* no keyword: only "btc rally" comes back
C25_Witness ==
    /\ f_result # NotCalled /\ f_keywords = <<KwBTC>> /\ f_reply.kind = "success"
    /\ Len(f_reply.tweets) = 3
    /\ f_reply.tweets[1].text = TxtEthDip /\ f_reply.tweets[2].text = TxtBtcRally
    /\ f_reply.tweets[3].text = TxtGm
    /\ f_result.tweets = <<f_reply.tweets[2]>>

(***************************************************************************)
(* Classification model: direct calls of analyze_tweet and analyze_batch,  *)
(* over every completion and every batch of posts.                         *)
(***************************************************************************)
\* posts in one batch
MaxAnalyze == 2

AnalyzeInit ==
    /\ BaseInit /\ FetchCallInit /\ QueryCallInit /\ ConvertCallInit /\ ExtraInit
    /\ z_response \in Completions
    /\ z_sentiment = NotCalled
    /\ z_tweets \in SeqUpTo(LockTweets, MaxAnalyze)
    /\ z_responses = <<>>
    /\ z_pairs = NotCalled

\* analyze_tweet(tweet_text) is called and returns or raises
AnalyzeTweet_Call ==
    /\ z_sentiment = NotCalled
    /\ z_sentiment' = [called |-> TRUE] @@ analyze_tweet(z_response)
    /\ UNCHANGED <<z_response, z_tweets, z_responses, z_pairs>>
    /\ UNCHANGED <<ingest_vars, store_call_vars, fetch_call_vars, query_call_vars,
                   convert_call_vars, extra_vars,
                   notify_vars, alert_vars>>

\* analyze_batch(tweets) is called and returns or raises
AnalyzeBatch_Call ==
    /\ z_pairs = NotCalled
    /\ \E responses \in [DOMAIN z_tweets -> Completions] :
         /\ z_responses' = responses
         /\ z_pairs' = [called |-> TRUE,
                        raised |-> raised_in_batch(z_tweets, responses),
                        pairs |-> analyze_batch(z_tweets, responses)]
    /\ UNCHANGED <<z_response, z_sentiment, z_tweets>>
    /\ UNCHANGED <<ingest_vars, store_call_vars, fetch_call_vars, query_call_vars,
                   convert_call_vars, extra_vars,
                   notify_vars, alert_vars>>

AnalyzeNext ==
    \/ AnalyzeTweet_Call
    \/ AnalyzeBatch_Call

AnalyzeSpec == AnalyzeInit /\ [][AnalyzeNext]_vars

\* C26: analyze_tweet returns positive, neutral or negative and raises
\* nothing, whatever the completion call does; it returns neutral when the
\* call fails and when the completion, stripped and lowercased, is outside
\* the taxonomy.
C26_AlwaysALabel ==
    z_sentiment # NotCalled =>
        /\ z_sentiment.raised = None
        /\ z_sentiment.sentiment \in Sentiments
        /\ (z_response.raised # None \/ z_response.text \in {ChMixed, ChPos, <<>>})
              => z_sentiment.sentiment = "neutral"

\* the completion was a word outside the taxonomy and the call returned neutral
C26_Witness ==
    /\ z_sentiment # NotCalled /\ z_response = Completion(ChMixed)
    /\ z_sentiment.sentiment = "neutral"

\* C27: analyze_batch returns one (post, sentiment) pair for every input
\* post, in input order, with a label of the taxonomy, also when some of
\* the classifications fail.
C27_OnePairPerPost ==
    z_pairs # NotCalled =>
        /\ z_pairs.raised = <<>>
        /\ Len(z_pairs.pairs) = Len(z_tweets)
        /\ \A i \in DOMAIN z_tweets :
              /\ z_pairs.pairs[i][1] = z_tweets[i]
              /\ z_pairs.pairs[i][2] \in Sentiments

\* a batch of two posts whose first classification failed and whose second
\* succeeded
C27_Witness ==
    /\ z_pairs # NotCalled /\ Len(z_tweets) = 2 /\ z_tweets[1] # z_tweets[2]
    /\ z_responses[1].raised # None /\ z_responses[2] = Completion(ChPositivePadded)
    /\ z_pairs.pairs = <<<<z_tweets[1], "neutral">>, <<z_tweets[2], "positive">>>>

(***************************************************************************)
(* Query model: direct calls of get_latest_sentiments and of               *)
(* query_sentiment_trends, over what the store can answer.                 *)
(***************************************************************************)
\* records in one answer of the store
MaxTrend == 3

\* the records of an answer: a label of the taxonomy, another value, or no
\* sentiment property at all
TrendRecords ==
    [sentiment : Sentiments \cup {"mixed"}] \cup {[tweet_text |-> "gm"]}

\* the query raises (connection lost, unexpected status), the answer lacks
\* the data.Get.TweetSentiment path, or it holds records
TrendReplies ==
    {[kind |-> "raise", tweets |-> <<>>], [kind |-> "no_class", tweets |-> <<>>]}
      \cup [kind : {"ok"}, tweets : SeqUpTo(TrendRecords, MaxTrend)]

\* mutant: the query methods have no handler
except_query_missing(e) ==
    FALSE

\* lines 309 and 344: `except Exception`
except_query(e) ==
    e \in {"WeaviateError"}

\* the exception that leaves a query method for this answer
query_raises(reply) ==
    IF reply.kind = "raise" /\ ~except_query("WeaviateError") THEN "WeaviateError" ELSE None

\* line 300: tweet.get("sentiment", "neutral")
sentiment_of(tweet) ==
    IF "sentiment" \in DOMAIN tweet THEN tweet.sentiment ELSE "neutral"

\* lines 298-302: the number of records of the answer with the label
count_label(tweets, label) ==
    Cardinality({i \in DOMAIN tweets : sentiment_of(tweets[i]) = label})

\* query_sentiment_trends: the size of the answer and its records per
\* label; the zeroed result of line 311 when the query raised
query_sentiment_trends(reply) ==
    IF reply.kind = "raise"
    THEN [total |-> 0, positive |-> 0, neutral |-> 0, negative |-> 0]
    ELSE [total |-> Len(reply.tweets),
          positive |-> count_label(reply.tweets, "positive"),
          neutral |-> count_label(reply.tweets, "neutral"),
          negative |-> count_label(reply.tweets, "negative")]

QueryInit ==
    /\ BaseInit /\ FetchCallInit /\ AnalyzeCallInit /\ ConvertCallInit /\ ExtraInit
    /\ q_reply \in TrendReplies
    /\ q_latest = NotCalled
    /\ q_trends = NotCalled

\* get_latest_sentiments(keyword, count) is called and returns or raises
GetLatestSentiments_Call ==
    /\ q_latest = NotCalled
    /\ q_latest' = [called |-> TRUE, raised |-> query_raises(q_reply),
                    tweets |-> get_latest_sentiments(q_reply, latest_count)]
    /\ UNCHANGED <<q_reply, q_trends>>
    /\ UNCHANGED <<ingest_vars, store_call_vars, fetch_call_vars, analyze_call_vars,
                   convert_call_vars, extra_vars,
                   notify_vars, alert_vars>>

\* query_sentiment_trends(keyword) is called and returns or raises
QuerySentimentTrends_Call ==
    /\ q_trends = NotCalled
    /\ q_trends' = [called |-> TRUE, raised |-> query_raises(q_reply),
                    stats |-> query_sentiment_trends(q_reply)]
    /\ UNCHANGED <<q_reply, q_latest>>
    /\ UNCHANGED <<ingest_vars, store_call_vars, fetch_call_vars, analyze_call_vars,
                   convert_call_vars, extra_vars,
                   notify_vars, alert_vars>>

QueryNext ==
    \/ GetLatestSentiments_Call
    \/ QuerySentimentTrends_Call

QuerySpec == QueryInit /\ [][QueryNext]_vars

\* C28: when the query fails, neither get_latest_sentiments nor
\* query_sentiment_trends raises: the first returns the empty list, the
\* second a total of 0 with 0 for each of the three labels.
C28_QueryFailureIsEmpty ==
    q_reply.kind = "raise" =>
        /\ q_latest # NotCalled => (q_latest.raised = None /\ q_latest.tweets = <<>>)
        /\ q_trends # NotCalled =>
              /\ q_trends.raised = None
              /\ q_trends.stats = [total |-> 0, positive |-> 0, neutral |-> 0, negative |-> 0]

\* both methods were called on a failing query
C28_Witness ==
    q_reply.kind = "raise" /\ q_latest # NotCalled /\ q_trends # NotCalled

(***************************************************************************)
(* Timestamp model: direct calls of _convert_timestamp_to_rfc3339 on       *)
(* legacy and canonical timestamps of every month, written from their      *)
(* fields, and on the other forms; then a second call on the result.       *)
(***************************************************************************)
MonthSeq ==
    <<<<"J", "a", "n">>, <<"F", "e", "b">>, <<"M", "a", "r">>, <<"A", "p", "r">>,
      <<"M", "a", "y">>, <<"J", "u", "n">>, <<"J", "u", "l">>, <<"A", "u", "g">>,
      <<"S", "e", "p">>, <<"O", "c", "t">>, <<"N", "o", "v">>, <<"D", "e", "c">>>>

\* the days of the inputs, as written: one digit, padded, two digits
DayForms == {<<"9">>, <<"0", "9">>, <<"1", "5">>}

two_digits(n) == <<DigitSeq[(n \div 10) + 1], DigitSeq[(n % 10) + 1]>>

\* "Thu <month> <day> 22:00:22 +0000 2025"
LegacyOf(month, day) ==
    <<"T", "h", "u", " ">> \o MonthSeq[month] \o <<" ">> \o day \o <<" ", "2", "2", ":", "0", "0", ":", "2", "2", " ", "+", "0", "0", "0", "0", " ", "2", "0", "2", "5">>

\* "2025-<mm>-<dd>T22:00:22Z"
CanonicalOf(month, day) ==
    <<"2", "0", "2", "5", "-">> \o two_digits(month) \o <<"-">> \o two_digits(int_of(day)) \o <<"T", "2", "2", ":", "0", "0", ":", "2", "2", "Z">>

ConvertInputs ==
    {[src |-> [form |-> "legacy", month |-> m, day |-> d], str |-> LegacyOf(m, d)] :
        m \in 1..12, d \in DayForms}
      \cup {[src |-> [form |-> "canonical", month |-> m, day |-> d], str |-> CanonicalOf(m, d)] :
                m \in 1..12, d \in DayForms \ {<<"9">>}}
      \cup {[src |-> [form |-> "other", month |-> 0, day |-> <<>>], str |-> x] :
                x \in {TsLegacyOffset, TsIsoOffset, TsGarbage}}

ConvertInit ==
    /\ BaseInit /\ FetchCallInit /\ AnalyzeCallInit /\ QueryCallInit /\ ExtraInit
    /\ \E i \in ConvertInputs : ts_src = i.src /\ ts_in = i.str
    /\ ts_out = NotCalled
    /\ ts_again = NotCalled

\* _convert_timestamp_to_rfc3339(timestamp) is called and returns
ConvertTimestamp_Call ==
    /\ ts_out = NotCalled
    /\ \E now \in Instants :
         ts_out' = [called |-> TRUE, str |-> convert_timestamp_to_rfc3339(ts_in, now)]
    /\ UNCHANGED <<ts_src, ts_in, ts_again>>
    /\ UNCHANGED <<ingest_vars, store_call_vars, fetch_call_vars, analyze_call_vars,
                   query_call_vars, extra_vars,
                   notify_vars, alert_vars>>

\* the result is converted once more, at any later reading of the clock
ConvertTimestamp_Again ==
    /\ ts_out # NotCalled /\ ts_again = NotCalled
    /\ \E now \in Instants :
         ts_again' = [called |-> TRUE, str |-> convert_timestamp_to_rfc3339(ts_out.str, now)]
    /\ UNCHANGED <<ts_src, ts_in, ts_out>>
    /\ UNCHANGED <<ingest_vars, store_call_vars, fetch_call_vars, analyze_call_vars,
                   query_call_vars, extra_vars,
                   notify_vars, alert_vars>>

ConvertNext ==
    \/ ConvertTimestamp_Call
    \/ ConvertTimestamp_Again

ConvertSpec == ConvertInit /\ [][ConvertNext]_vars

\* the single canonical format, YYYY-MM-DDTHH:MM:SSZ
is_canonical(s) ==
    /\ Len(s) = 20 /\ s[5] = "-" /\ s[8] = "-" /\ s[11] = "T" /\ s[20] = "Z"
    /\ s[14] = ":" /\ s[17] = ":"
    /\ \A i \in {1, 2, 3, 4, 6, 7, 9, 10, 12, 13, 15, 16, 18, 19} : s[i] \in Digits

\* C29: a legacy timestamp "<weekday> <month> <day> <HH:MM:SS> +0000 <year>"
\* is converted to the canonical YYYY-MM-DDTHH:MM:SSZ of the same date and
\* time ("Thu May 15 22:00:22 +0000 2025" gives "2025-05-15T22:00:22Z"); a
\* canonical timestamp is returned unchanged; converting a result once more
\* returns it unchanged.
C29_LegacyToCanonical ==
    /\ ts_out # NotCalled =>
          /\ ts_src.form = "legacy" =>
                (ts_out.str = CanonicalOf(ts_src.month, ts_src.day) /\ is_canonical(ts_out.str))
          /\ ts_src.form = "canonical" => ts_out.str = ts_in
          /\ ts_in = TsLegacy => ts_out.str = TsCanonical
    /\ ts_again # NotCalled => ts_again.str = ts_out.str

\* the example of the docstring, converted and converted again
C29_Witness ==
    /\ ts_in = TsLegacy /\ ts_out # NotCalled /\ ts_out.str = TsCanonical
    /\ ts_again # NotCalled /\ ts_again.str = TsCanonical

(***************************************************************************)
(* Stored timestamps: direct calls of store_tweet for posts whose creation *)
(* timestamp comes in every form, or not at all.                           *)
(***************************************************************************)
StampTweets ==
    {Tweet(id, TxtBtcRally, createdAt, TRUE) :
        id \in PostIds, createdAt \in CreatedAts \cup {Absent}}

StampNext == StoreTweet_Call(StampTweets, {"positive"})

StampSpec == Init /\ [][StampNext]_vars

\* C30: every record written by store_tweet carries a timestamp in the
\* canonical format YYYY-MM-DDTHH:MM:SSZ, whatever the creation timestamp
\* of the post: canonical, legacy, unparseable, or absent.
C30_StoredTimestampCanonical ==
    \A i \in DOMAIN objects : is_canonical(objects[i].properties.timestamp)

(***************************************************************************)
(* Process start-up and the scheduler's life cycle: main() of the start    *)
(* command, ScheduleManager.start and stop, and the runs a started         *)
(* scheduler fires.                                                        *)
(***************************************************************************)
\* job runs that are explored
MaxFires == 2
\* start and stop calls that are explored
MaxLifeCalls == 5

\* settings.monitoring_interval
Intervals == {60, 300}

\* scheduler.add_job(func, 'interval', seconds, id)
add_job(sched, id, seconds) ==
    [sched EXCEPT !.jobs = Append(@, [id |-> id, seconds |-> seconds])]

\* mutant: start has no guard on running
start_unguarded(st, interval_seconds) ==
    LET sched == add_job(add_job([state |-> "created", jobs |-> <<>>],
                                 "monitoring_job", interval_seconds),
                         "notification_job", 60)
    IN  [running |-> TRUE, scheduler |-> Len(st.scheds) + 1,
         scheds |-> Append(st.scheds, [sched EXCEPT !.state = "running"])]

\* ScheduleManager.start, lines 131-155: nothing when running; otherwise a
\* new BackgroundScheduler gets the two jobs and is started
start(st, interval_seconds) ==
    IF st.running THEN st
    ELSE LET sched == add_job(add_job([state |-> "created", jobs |-> <<>>],
                                      "monitoring_job", interval_seconds),
                              "notification_job", 60)
         IN  [running |-> TRUE, scheduler |-> Len(st.scheds) + 1,
              scheds |-> Append(st.scheds, [sched EXCEPT !.state = "running"])]

\* ScheduleManager.stop, lines 159-162
stop(st) ==
    IF st.scheduler # 0 /\ st.running
    THEN [st EXCEPT !.running = FALSE, !.scheds[st.scheduler].state = "shutdown"]
    ELSE st

SchedState == [running |-> s_running, scheduler |-> s_scheduler, scheds |-> s_scheds]

SetSchedState(st) ==
    /\ s_running' = st.running
    /\ s_scheduler' = st.scheduler
    /\ s_scheds' = st.scheds

\* a started scheduler fires one of its jobs
Scheduler_Fire ==
    /\ Len(m_fired) < MaxFires
    /\ \E i \in DOMAIN s_scheds :
         /\ s_scheds[i].state = "running"
         /\ \E j \in DOMAIN s_scheds[i].jobs :
              m_fired' = Append(m_fired, [sched |-> i, id |-> s_scheds[i].jobs[j].id])
    /\ UNCHANGED <<sched_vars, m_pc, m_env, m_accounts, m_store, m_exit>>
    /\ UNCHANGED <<ingest_vars, store_call_vars, fetch_call_vars, analyze_call_vars,
                   query_call_vars, convert_call_vars, process_call_vars,
                   notify_vars, alert_vars>>

\* config.py line 45, run when main.py imports the module: Settings() raises
\* a validation error when a field without default has no value
settings_error(env) ==
    ~env.twitterapi_key \/ ~env.openai_api_key

\* the process is launched: twitter_sentiment.config is imported
Main_Import ==
    /\ m_pc = "import"
    /\ IF settings_error(m_env)
       THEN /\ m_pc' = "exited"
            /\ m_exit' = [code |-> 1, raised |-> "ValidationError"]
       ELSE /\ m_pc' = "load"
            /\ UNCHANGED m_exit
    /\ UNCHANGED <<sched_vars, m_env, m_accounts, m_store, m_fired>>
    /\ UNCHANGED <<ingest_vars, store_call_vars, fetch_call_vars, analyze_call_vars,
                   query_call_vars, convert_call_vars, process_call_vars,
                   notify_vars, alert_vars>>

\* mutant: an empty account list is accepted
no_accounts_ignored(accounts) ==
    FALSE

\* main.py line 129: `if not accounts`
no_accounts(accounts) ==
    accounts = <<>>

\* main.py lines 128-131: load the accounts, return 1 when there are none
Main_LoadAccounts ==
    /\ m_pc = "load"
    /\ IF no_accounts(m_accounts)
       THEN /\ m_pc' = "exited"
            /\ m_exit' = [code |-> 1, raised |-> None]
       ELSE /\ m_pc' = "init"
            /\ UNCHANGED m_exit
    /\ UNCHANGED <<sched_vars, m_env, m_accounts, m_store, m_fired>>
    /\ UNCHANGED <<ingest_vars, store_call_vars, fetch_call_vars, analyze_call_vars,
                   query_call_vars, convert_call_vars, process_call_vars,
                   notify_vars, alert_vars>>

\* main.py lines 134-163: the components are constructed, outside any try
\* block; WeaviateStorage() connects to the store and may raise
Main_InitComponents ==
    /\ m_pc = "init"
    /\ IF m_store = "raise"
       THEN /\ m_pc' = "exited"
            /\ m_exit' = [code |-> 1, raised |-> "WeaviateError"]
       ELSE /\ m_pc' = "start"
            /\ UNCHANGED m_exit
    /\ UNCHANGED <<sched_vars, m_env, m_accounts, m_store, m_fired>>
    /\ UNCHANGED <<ingest_vars, store_call_vars, fetch_call_vars, analyze_call_vars,
                   query_call_vars, convert_call_vars, process_call_vars,
                   notify_vars, alert_vars>>

\* main.py line 166: scheduler.start(interval_seconds=settings.monitoring_interval)
Main_Start ==
    /\ m_pc = "start"
    /\ \E interval_seconds \in Intervals :
         SetSchedState(start(SchedState, interval_seconds))
    /\ s_calls' = s_calls + 1
    /\ s_last' = [op |-> "start", was_running |-> s_running]
    /\ m_pc' = "running"
    /\ UNCHANGED <<m_env, m_accounts, m_store, m_exit, m_fired>>
    /\ UNCHANGED <<ingest_vars, store_call_vars, fetch_call_vars, analyze_call_vars,
                   query_call_vars, convert_call_vars, process_call_vars,
                   notify_vars, alert_vars>>

\* main.py lines 173-175: KeyboardInterrupt in the sleep loop stops the scheduler
Main_Interrupt ==
    /\ m_pc = "running"
    /\ SetSchedState(stop(SchedState))
    /\ s_calls' = s_calls + 1
    /\ s_last' = [op |-> "stop", was_running |-> s_running]
    /\ m_pc' = "exited"
    /\ m_exit' = [code |-> 0, raised |-> None]
    /\ UNCHANGED <<m_env, m_accounts, m_store, m_fired>>
    /\ UNCHANGED <<ingest_vars, store_call_vars, fetch_call_vars, analyze_call_vars,
                   query_call_vars, convert_call_vars, process_call_vars,
                   notify_vars, alert_vars>>

StartupInit ==
    /\ BaseInit /\ CallsIdle /\ SchedInit /\ ProcessCallInit
    /\ m_pc = "import"
    /\ m_env \in [twitterapi_key : BOOLEAN, openai_api_key : BOOLEAN]
    /\ m_accounts \in {<<>>, <<"alice">>, Accounts}
    /\ m_store \in {"ok", "raise"}
    /\ m_exit = NoExit
    /\ m_fired = <<>>

StartupNext ==
    \/ Main_Import
    \/ Main_LoadAccounts
    \/ Main_InitComponents
    \/ Main_Start
    \/ Main_Interrupt
    \/ Scheduler_Fire

StartupSpec == StartupInit /\ [][StartupNext]_vars

ConfigFailure ==
    ~m_env.twitterapi_key \/ ~m_env.openai_api_key \/ m_accounts = <<>>

\* C31: when a mandatory credential is missing or the account list is
\* empty, start-up stops before the scheduler is started: no scheduler is
\* ever created, no ingestion run and no alert run is ever fired, and the
\* process ends with a failure.
C31_ConfigFailureStopsStartup ==
    ConfigFailure =>
        /\ s_scheds = <<>> /\ ~s_running /\ m_fired = <<>>
        /\ m_pc \in {"import", "load", "exited"}
        /\ m_pc = "exited" => m_exit.code = 1

\* the credentials are there, the account list is empty, and the process
\* has returned 1
C31_Witness ==
    /\ m_env.twitterapi_key /\ m_env.openai_api_key /\ m_accounts = <<>>
    /\ m_pc = "exited" /\ m_exit = [code |-> 1, raised |-> None]

(***************************************************************************)
(* Direct calls of ScheduleManager.start and stop, in any order.           *)
(***************************************************************************)
\* scheduler.start(interval_seconds) is called and returns
Start_Call ==
    /\ s_calls < MaxLifeCalls
    /\ \E interval_seconds \in Intervals :
         SetSchedState(start(SchedState, interval_seconds))
    /\ s_calls' = s_calls + 1
    /\ s_last' = [op |-> "start", was_running |-> s_running]
    /\ UNCHANGED main_vars
    /\ UNCHANGED <<ingest_vars, store_call_vars, fetch_call_vars, analyze_call_vars,
                   query_call_vars, convert_call_vars, process_call_vars,
                   notify_vars, alert_vars>>

\* scheduler.stop() is called and returns
Stop_Call ==
    /\ s_calls < MaxLifeCalls
    /\ SetSchedState(stop(SchedState))
    /\ s_calls' = s_calls + 1
    /\ s_last' = [op |-> "stop", was_running |-> s_running]
    /\ UNCHANGED main_vars
    /\ UNCHANGED <<ingest_vars, store_call_vars, fetch_call_vars, analyze_call_vars,
                   query_call_vars, convert_call_vars, process_call_vars,
                   notify_vars, alert_vars>>

LifeNext ==
    \/ Start_Call
    \/ Stop_Call
    \/ Scheduler_Fire

LifeSpec == Init /\ [][LifeNext]_vars

\* the schedulers that are started and not shut down
Live == {i \in DOMAIN s_scheds : s_scheds[i].state = "running"}

\* the jobs with the id on the started schedulers
Registered(id) ==
    {<<i, j>> \in Live \X (1..2) : s_scheds[i].jobs[j].id = id}

\* C40: for any sequence of start and stop calls, start while running
\* changes nothing (no second scheduler, no second pair of jobs), stop
\* while not running changes nothing, running is true exactly from a start
\* to the next stop, and at most one monitoring job and one notification
\* job are registered at any time.
C40_StartStop ==
    /\ [](/\ s_calls > 0 => (s_running <=> s_last.op = "start")
          /\ s_running <=> Live # {}
          /\ s_running => Live = {s_scheduler}
          /\ Cardinality(Registered("monitoring_job")) <= 1
          /\ Cardinality(Registered("notification_job")) <= 1
          /\ s_running => /\ Cardinality(Registered("monitoring_job")) = 1
                          /\ Cardinality(Registered("notification_job")) = 1)
    /\ [][s_calls' = s_calls + 1 =>
            /\ (s_last'.op = "start" /\ s_running)
                 => UNCHANGED <<s_running, s_scheduler, s_scheds>>
            /\ (s_last'.op = "stop" /\ ~s_running)
                 => UNCHANGED <<s_running, s_scheduler, s_scheds>>
            /\ (s_last'.op = "start" /\ ~s_running)
                 => (s_running' /\ Len(s_scheds') = Len(s_scheds) + 1)
            /\ (s_last'.op = "stop" /\ s_running)
                 => (~s_running' /\ Len(s_scheds') = Len(s_scheds))]_vars

\* start, start again while running, stop, stop again, and a new start
C40_Witness ==
    /\ s_calls = 5 /\ s_running /\ s_last = [op |-> "start", was_running |-> FALSE]
    /\ Len(s_scheds) = 2 /\ s_scheds[1].state = "shutdown" /\ s_scheduler = 2

(***************************************************************************)
(* Progress of the ingestion job: every collaborator call returns and the  *)
(* thread that runs _monitoring_job keeps running.                         *)
(***************************************************************************)
\* what the upstream answers here: a post, nothing, or a failure
ProgressReplies == UpstreamReplies(LockTweets, 1)

\* the next step of the cycle thread t is executing
CycleStep(t) ==
    \/ ProcessAccounts_Fetch(t, WindowAccounts, ProgressReplies)
    \/ MonitoringJob_Fetched(t, WindowAccounts)
    \/ MonitoringJob_Analyze(t, LockCompletions)
    \/ StoreBatch_Item(t)
    \/ MonitoringJob_Stored(t)
    \/ MonitoringJob_Raise(t)
    \/ MonitoringJob_Except(t)
    \/ MonitoringJob_Finally(t)

\* the ticks of one account, with threads that are not stopped in the
\* middle of a cycle; the ticks themselves may come or not
ProgressNext ==
    \/ \E t \in Threads : MonitoringJob_Tick(t)
    \/ \E t \in Threads : CycleStep(t)

ProgressSpec ==
    Init /\ [][ProgressNext]_vars /\ \A t \in Threads : WF_vars(CycleStep(t))

\* C32: when every collaborator call returns, every ingestion cycle that
\* acquired the lock comes back to idle with the lock free, whatever
\* failed in it; a held lock is always released again, and whenever the
\* lock is free the next tick acquires it and starts a cycle: there is no
\* state from which every later tick is skipped.
C32_CycleEndsLockFreed ==
    /\ \A t \in Threads : InCycle(t) ~> (~InCycle(t) /\ ~monitor_lock)
    /\ monitor_lock ~> ~monitor_lock
    /\ [](~monitor_lock =>
            \A t \in Threads :
                /\ pc[t] = "idle"
                /\ job_after_acquire(acquire_nonblocking(monitor_lock).ok).pc = "fetching")

\* a cycle ended in an exception, the lock is free again, and a tick on
\* the other thread has acquired it and reached the store step
C32_Witness ==
    \E t, u \in Threads :
        /\ t # u /\ outcome[t] = "failed" /\ pc[t] = "idle"
        /\ pc[u] = "storing" /\ outcome[u] = "running" /\ monitor_lock

(***************************************************************************)
(* Direct calls of TwitterMonitor.process_accounts                         *)
(***************************************************************************)
\* accounts of a monitor that are explored
MaxAccounts == 3
\* batch sizes that are explored
MaxBatchSize == 3

\* what the upstream answers to one fetch
BatchReplies ==
    {[kind |-> "success", tweets |-> <<Tweet("p1", TxtBtcRally, TsLegacy, TRUE)>>],
     [kind |-> "success", tweets |-> <<Tweet("p2", TxtEthDip, TsLegacy, TRUE)>>],
     [kind |-> "success", tweets |-> <<Tweet("p1", TxtGm, TsLegacy, TRUE)>>],
     [kind |-> "http_error", tweets |-> <<>>]}

\* an entry of the record of calls process_accounts made
FetchEvent(account, since_id) == [ev |-> "fetch", account |-> account, since_id |-> since_id]
SleepEvent == [ev |-> "sleep", account |-> None, since_id |-> None]

\* mutant: the pause follows every batch
pause_due_every_batch(i, batch_size, n) ==
    TRUE

\* line 152: `if i + batch_size < len(self.accounts)`
pause_due(i, batch_size, n) ==
    i + batch_size < n

\* lines 132-149, the loop over the accounts of one batch, from its j-th
\* account on; base is the number of accounts of the earlier batches
RECURSIVE batch_loop(_, _, _, _, _)
batch_loop(st, batch, j, base, replies) ==
    IF j > Len(batch) \/ st.raised # None THEN st
    ELSE LET account == batch[j]
             r == fetch_tweets(replies[base + j], crypto_keywords)
             called == Append(st.trace, FetchEvent(account, st.ids[account]))
         IN  IF r.raised # None
             THEN [st EXCEPT !.trace = called, !.raised = r.raised]
             ELSE batch_loop([st EXCEPT !.trace = called,
                                        !.ids = update_cursor(@, account, r.tweets),
                                        !.all_tweets = @ \o r.tweets],
                             batch, j + 1, base, replies)

\* lines 129-153, the loop over range(0, len(accounts), batch_size) from i on
RECURSIVE accounts_loop(_, _, _, _, _)
accounts_loop(st, accounts, batch_size, i, replies) ==
    IF i >= Len(accounts) \/ st.raised # None THEN st
    ELSE LET last == IF i + batch_size < Len(accounts) THEN i + batch_size
                     ELSE Len(accounts)
             batch == SubSeq(accounts, i + 1, last)
             s1 == batch_loop(st, batch, 1, i, replies)
             s2 == IF s1.raised = None /\ pause_due(i, batch_size, Len(accounts))
                   THEN [s1 EXCEPT !.trace = Append(@, SleepEvent)]
                   ELSE s1
         IN  accounts_loop(s2, accounts, batch_size, i + batch_size, replies)

\* process_accounts(batch_size) on a monitor with the accounts and the
\* cursors: the calls it makes, the cursors it leaves and the list it returns
process_accounts(accounts, ids, batch_size, replies) ==
    accounts_loop([ids |-> ids, all_tweets |-> <<>>, trace |-> <<>>, raised |-> None],
                  accounts, batch_size, 0, replies)

\* monitor.process_accounts(batch_size) is called and returns
ProcessAccounts_Call ==
    /\ pa = NotCalled      \* one call on each monitor is explored
    /\ \E batch_size \in 1..MaxBatchSize, replies \in [DOMAIN pa_accounts -> BatchReplies] :
         LET r == process_accounts(pa_accounts, last_tweet_ids, batch_size, replies)
         IN  /\ pa' = [called |-> TRUE, batch_size |-> batch_size, replies |-> replies,
                       trace |-> r.trace, raised |-> r.raised, result |-> r.all_tweets]
             /\ last_tweet_ids' = r.ids
    /\ UNCHANGED pa_accounts
    /\ UNCHANGED <<monitor_lock, pc, acct, all_tweets, analyzed_tweets, item, stats,
                   attempts, exc, steps, outcome, restarts, last_fetch, objects>>
    /\ UNCHANGED <<store_call_vars, fetch_call_vars, analyze_call_vars, query_call_vars,
                   convert_call_vars, sched_vars, main_vars, notify_vars, alert_vars>>

\* monitors with up to MaxAccounts accounts, an account listed twice included
ProcessInit ==
    /\ BaseInit /\ CallsIdle /\ SchedInit /\ MainInit
    /\ pa_accounts \in SeqUpTo(AccountNames, MaxAccounts)
    /\ pa = NotCalled

ProcessNext == ProcessAccounts_Call

ProcessSpec == ProcessInit /\ [][ProcessNext]_vars

\* the calls that are due for n accounts from the k-th on, told from the
\* position of each account in the list
RECURSIVE DueCalls(_, _, _)
DueCalls(accounts, batch_size, k) ==
    IF k > Len(accounts) THEN <<>>
    ELSE <<"fetch">>
           \o (IF k % batch_size = 0 /\ k < Len(accounts) THEN <<"sleep">> ELSE <<>>)
           \o DueCalls(accounts, batch_size, k + 1)

\* the k-th fetch of the last call
FetchesOf(trace) == SelectSeq(trace, LAMBDA e : e.ev = "fetch")

\* the lists the fetches of the last call returned, one after the other
RECURSIVE ResultsFrom(_, _)
ResultsFrom(replies, k) ==
    IF k > Len(replies) THEN <<>>
    ELSE fetch_tweets(replies[k], crypto_keywords).tweets \o ResultsFrom(replies, k + 1)

\* C33: a call of process_accounts fetches every entry of the account
\* list once, in list order; a pause follows every batch_size-th account
\* that is not the last one and comes nowhere else, so after each batch
\* except the last and never inside a batch; the returned list is the
\* per-account results one after the other in account order.
C33_BatchedFetch ==
    pa.called =>
        /\ pa.raised = None
        /\ Len(FetchesOf(pa.trace)) = Len(pa_accounts)
        /\ \A k \in DOMAIN pa_accounts : FetchesOf(pa.trace)[k].account = pa_accounts[k]
        /\ [i \in DOMAIN pa.trace |-> pa.trace[i].ev]
               = DueCalls(pa_accounts, pa.batch_size, 1)
        /\ pa.result = ResultsFrom(pa.replies, 1)

\* three accounts fetched in batches of two: one pause, after the second
\* account, and posts from the first and the third account
C33_Witness ==
    /\ pa.called /\ Len(pa_accounts) = 3 /\ pa.batch_size = 2
    /\ [i \in DOMAIN pa.trace |-> pa.trace[i].ev] = <<"fetch", "fetch", "sleep", "fetch">>
    /\ Len(pa.result) = 2 /\ pa.result[1].id = "p1" /\ pa.result[2].id = "p2"

(***************************************************************************)
(* Who releases the ingestion lock (specification Spec)                    *)
(***************************************************************************)
\* thread t runs the finally block in this step
FinallyStep(t) == pc[t] = "finally" /\ pc'[t] = "idle"

\* the tick of thread t is skipped in this step
SkipStep(t) == pc[t] = "idle" /\ outcome[t] # "skipped" /\ outcome'[t] = "skipped"

\* C34: a skipped tick leaves the lock held and every cycle where it was;
\* the lock is released only by the finally block of the one cycle that
\* is executing, never under a cycle of another thread, so there is one
\* release for each acquisition and no tick can enter beside a running cycle.
C34_ReleaseOnlyByHolder ==
    [][/\ \A t \in Threads :
            SkipStep(t) => /\ monitor_lock /\ monitor_lock'
                           /\ pc' = pc
                           /\ \E u \in Threads : u # t /\ InCycle(u)
       /\ (monitor_lock /\ ~monitor_lock') =>
            \E t \in Threads :
                /\ FinallyStep(t)
                /\ outcome[t] # "skipped"
                /\ \A u \in Threads : u # t => ~InCycle(u) /\ pc'[u] = "idle"]_vars

\* the tick of one thread was skipped while the cycle of the other, now in
\* its finally block, still holds the lock
C34_Witness ==
    \E t, u \in Threads :
        /\ t # u /\ outcome[t] = "skipped" /\ pc[t] = "idle"
        /\ pc[u] = "finally" /\ monitor_lock

(***************************************************************************)
(* The cursor and the steps after the fetch (specification Spec)           *)
(***************************************************************************)
\* C35: the cursor of an account is written by the fetch step only: a
\* cycle that is classifying or storing already has the id of its first
\* post as a cursor, and no classify or store step, no exception, no
\* handler and no finally block changes a cursor. A cycle that failed
\* after the fetch, or whose store_tweet calls all reported error, leaves
\* the cursor at the fetched post with no record of that post in the store.
C35_CursorKeptOnFailure ==
    /\ [](\A t \in Threads :
            pc[t] \in {"classifying", "storing"} =>
                \E a \in AccountNames : last_tweet_ids[a] = all_tweets[t][1].id)
    /\ [][last_tweet_ids' # last_tweet_ids => \E t \in Threads : FetchStep(t)]_vars
    /\ [][\A t \in Threads :
            (pc'[t] = "idle" /\ outcome'[t] \in {"failed", "completed"}
               /\ pc[t] = "finally" /\ all_tweets[t] # <<>>)
              => \E a \in AccountNames : last_tweet_ids'[a] = all_tweets[t][1].id]_vars

\* the classify or store step of a cycle that fetched p1 raised; the next
\* cycle asks the upstream for the posts after p1, and the store has no
\* record of p1
C35_Witness ==
    \E t, u \in Threads :
        /\ t # u /\ outcome[t] = "failed" /\ pc[t] = "idle" /\ "classify" \in StepsOf(t)
        /\ pc[u] = "fetching" /\ last_fetch[u].since_id = "p1"
        /\ RecordsOf(objects, "p1") = {}

(***************************************************************************)
(* Posts without an id: direct calls of store_tweet                        *)
(***************************************************************************)
\* posts whose data has no id, and posts that have one
IdlessTweets ==
    {Tweet(None, text, createdAt, ok) :
        text \in {TxtBtcRally, TxtEthDip, TxtGm},
        createdAt \in {TsCanonical, TsLegacyShortDay}, ok \in BOOLEAN}

IdlessNext == StoreTweet_Call(IdlessTweets \cup {Tweet("p1", TxtBtcRally, TsCanonical, TRUE)},
                              Sentiments)

IdlessSpec == Init /\ [][IdlessNext]_vars

\* C36: every post without an id gets the key of the name "twitter:None",
\* which is not the key of a post with an id; of the store_tweet calls for
\* id-less posts that the store accepts the first returns "new" and every
\* later one "existing", whatever its text, sentiment and timestamp; no
\* call for an id-less post returns "new" after one did, and the store
\* never holds more than the first id-less post.
C36_IdlessPostsShareKey ==
    /\ \A a \in IdlessTweets :
          /\ tweet_uuid(a) = uuid5(NAMESPACE_URL, <<"twitter:", "None">>)
          /\ tweet_uuid(a) # tweet_uuid(Tweet("p1", a.text, a.createdAt, a.countsOk))
    /\ LET ok == Accepted(None)
       IN  /\ \A k \in DOMAIN ok : ok[k].result = IF k = 1 THEN "new" ELSE "existing"
           /\ Cardinality(RecordsOf(objects, "None")) = IF ok = <<>> THEN 0 ELSE 1
    /\ \A j, k \in DOMAIN log[None] :
          (j < k /\ log[None][j].result = "new") => log[None][k].result # "new"

\* an id-less post is stored, and a second id-less post with another text
\* is reported existing: the store holds the first one only
C36_Witness ==
    /\ Len(log[None]) = 2 /\ log[None][1].result = "new"
    /\ last_call.id = None /\ last_call.result = "existing"
    /\ Cardinality(RecordsOf(objects, "None")) = 1
    /\ StoredRecord("None").tweet_text # last_call.tweet_data.text

(***************************************************************************)
(* The cooldown of one keyword and the notifications of another            *)
(* (specification NotifySeqSpec)                                           *)
(***************************************************************************)
\* the entry of keyword k is the same before and after the step
SameEntry(k) ==
    /\ (k \in DOMAIN last_notification_time') <=> (k \in DOMAIN last_notification_time)
    /\ k \in DOMAIN last_notification_time
         => last_notification_time'[k] = last_notification_time[k]

\* C37: the cooldown is kept per keyword. A send_notification call for a
\* keyword with no entry in last_notification_time passes the gate; the
\* gate's decision for keyword k is told by k's entry and the clock alone;
\* and no step of a call for k changes the entry of another keyword.
C37_CooldownPerKeyword ==
    [][/\ Decided(1) =>
            LET k == n_call[1].keyword
            IN  /\ k \notin DOMAIN last_notification_time => ~Refused(1)
                /\ Refused(1) <=>
                      /\ k \in DOMAIN last_notification_time
                      /\ n_current_time[1] - last_notification_time[k] < min_interval
       /\ \A k \in Keywords :
            (n_pc[1] # "idle" /\ k # n_call[1].keyword) => SameEntry(k)
       /\ n_pc[1] = "idle" => last_notification_time' = last_notification_time]_vars

\* a notification for one keyword went out inside the cooldown of the other
C37_Witness ==
    /\ DOMAIN last_notification_time = Keywords
    /\ last_notification_time["ETH"] - last_notification_time["BTC"] < min_interval
    /\ last_notification_time["BTC"] - last_notification_time["ETH"] < min_interval
    /\ n_pc[1] = "idle" /\ n_result[1] = "True"

(***************************************************************************)
(* What the alert job decides on (specification AlertSpec)                 *)
(***************************************************************************)
\* the records of the current keyword that are labelled positive
PositiveLatest == PositiveIn(a_latest)

\* C38: the alert job decides on the at most 10 records of its query and
\* on the threshold 7, whatever sentiment_threshold is configured:
\* send_notification is called for a keyword exactly when the query
\* returned 10 records of which 7 or more are labelled positive.
C38_FixedSampleAndThreshold ==
    /\ [](/\ Len(a_latest) <= 10
          /\ a_pc \in {"notify", "sending"}
               => (Len(a_latest) = 10 /\ Cardinality(PositiveLatest) >= 7))
    /\ [][/\ (a_pc = "evaluate" /\ a_pc' # "evaluate")
              => (a_pc' = "notify"
                    <=> (Len(a_latest) = 10 /\ Cardinality(PositiveLatest) >= 7))
          /\ (a_pc # "sending" /\ a_pc' = "sending") => a_pc = "notify"
          /\ (a_pc # "notify" /\ a_pc' = "notify") => a_pc = "evaluate"]_vars

\* the query returned 10 records, 7 of them positive, and send_notification
\* is being called for the keyword
C38_Witness ==
    /\ a_pc = "sending" /\ Len(a_latest) = 10 /\ Cardinality(PositiveLatest) = 7
    /\ n_call[JobCaller].keyword = AlertKeywords[a_kw]

(***************************************************************************)
(* Exceptions in the alert job: the runs of AlertSpec, and a collaborator   *)
(* call of the job that raises                                             *)
(***************************************************************************)
AlertRaiseNext ==
    \/ NotificationCheckJob_Start
    \/ NotificationCheckJob_Query(QueryReplies)
    \/ NotificationCheckJob_Evaluate
    \/ NotificationCheckJob_Notify
    \/ CanSend_Read(JobCaller)
    \/ CanSend_Compare(JobCaller)
    \/ SendNotification_Deliver(JobCaller)
    \/ NotificationCheckJob_Notified
    \/ NotificationCheckJob_Return
    \/ NotificationCheckJob_Raise

AlertRaiseSpec == Init /\ [][AlertRaiseNext]_vars

\* the job leaves its try block through the handler in this step
AlertRaiseStep == a_outcome = "running" /\ a_outcome' # "running" /\ a_pc # "query"

\* C39: no exception leaves _notification_check_job. An exception raised
\* while the job evaluates or notifies keyword k makes the job return at
\* k: the keywords queried in that run are the configured ones up to k, no
\* query, evaluation or send_notification call follows in the run, and the
\* run has made at most one send_notification call per keyword (a call
\* follows an evaluation of its keyword, and no keyword is evaluated twice).
C39_ExceptionEndsAlertCycle ==
    /\ [](/\ a_outcome # "propagated"
          /\ a_outcome = "failed" =>
                /\ a_pc = "idle"
                /\ a_queried # <<>>
                /\ QueriedKeywords = SubSeq(AlertKeywords, 1, Len(a_queried))
                /\ a_queried[Len(a_queried)].found > 0
                /\ a_evaluated \in {FoundKeywords,
                                     SubSeq(FoundKeywords, 1, Len(FoundKeywords) - 1)}
          /\ \A i, j \in DOMAIN a_evaluated : i # j => a_evaluated[i] # a_evaluated[j])
    /\ [][/\ AlertRaiseStep =>
                /\ a_outcome' = "failed" /\ a_pc' = "idle"
                /\ UNCHANGED <<a_queried, a_evaluated, last_notification_time, emitted>>
          /\ (a_pc # "sending" /\ a_pc' = "sending") =>
                /\ a_pc = "notify"
                /\ a_evaluated[Len(a_evaluated)] = AlertKeywords[a_kw]
                /\ n_call'[JobCaller].keyword = AlertKeywords[a_kw]
          /\ a_pc \in {"notify", "sending"} => a_pc' \in {"notify", "sending", "query", "idle"}
          /\ (a_pc = "sending" /\ a_pc' = "query") => a_kw' = a_kw + 1
          /\ a_outcome = "failed" => UNCHANGED <<a_queried, a_evaluated>> \/ a_outcome' = "running"]_vars

\* the notification for the first keyword raised during delivery: the job
\* has returned and the second keyword was not queried
C39_Witness ==
    /\ a_outcome = "failed" /\ a_pc = "idle"
    /\ Len(a_queried) = 1 /\ a_evaluated = <<AlertKeywords[1]>>
    /\ n_call[JobCaller].keyword = AlertKeywords[1]
    /\ AlertKeywords[1] \in DOMAIN last_notification_time
    /\ delivered[JobCaller] = {}

====
